---- MODULE Spec2Model ----
(***************************************************************************)
(* A model of generate.py, the generator of the python-vlc bindings:       *)
(* Parser (parse_typedef, parse_include, parse_param) and PythonGenerator  *)
(* (__init__, check_types, save, insert_code, generate_enums,              *)
(* output_ctypes, generate_wrappers).                                      *)
(*                                                                         *)
(* Text.  A Python string is modelled as a sequence of chunks.  A chunk is *)
(* a TLA+ string standing for a run of characters that the code never      *)
(* looks inside: one whitespace character (" " or "\n"), one punctuation   *)
(* token ("{", ",", ";", "/*", ...), one digit, or one word.  The regular  *)
(* expressions of generate.py are translated character class by character  *)
(* class: \s is a whitespace chunk, \S any other chunk, a literal is the   *)
(* chunk of that name.                                                     *)
(***************************************************************************)
EXTENDS Integers, Sequences, FiniteSets, TLC

VARIABLES
    pc,         \* position in the pipeline
    decl,       \* the declarations the input source was written from
    src,        \* the include file: a sequence of lines
    enums,      \* Parser.enums
    methods,    \* Parser.methods
    reported,   \* what parse_include printed as "### Error ###"
    type2class, \* PythonGenerator.type2class (a class attribute)
    error,      \* the exception that ended the run, or NoError
    opened,     \* self.fd has been opened
    out,        \* what has been written to self.fd, in order
    clock,      \* what time.ctime() returns
    run,        \* the number of the run of the program: 1 or 2
    first_out,  \* what the first run wrote, kept to compare the second with
    checks,     \* how many times check_types has been called in this run
    io,         \* the files opened for reading in this run, in order
    pos,        \* how many lines of the file the running loop has read
    td,         \* the local variables of parse_typedef's loop
    inc,        \* the local variables of parse_include's loop
    result      \* what the function under study returned

vars == <<pc, decl, src, enums, methods, reported, type2class, error, opened, out,
          clock, run, first_out, checks, io, pos, td, inc, result>>

\* The variables of the line loops and of the functions studied alone
loopvars == <<pos, td, inc, result>>

----------------------------------------------------------------------------
(* Bounds *)

MaxMembers == 3
MaxParams == 3
MaxTags == 3
MaxFuncs == 2

----------------------------------------------------------------------------
(* str methods *)

IsSpace(c) == c \in {" ", "\n"}

RECURSIVE lstrip(_)
lstrip(s) == IF s # <<>> /\ IsSpace(Head(s)) THEN lstrip(Tail(s)) ELSE s

RECURSIVE rstrip(_)
rstrip(s) ==
    IF s # <<>> /\ IsSpace(s[Len(s)]) THEN rstrip(SubSeq(s, 1, Len(s) - 1)) ELSE s

strip(s) == lstrip(rstrip(s))

startswith(s, c) == s # <<>> /\ s[1] = c

endswith(s, c) == s # <<>> /\ s[Len(s)] = c

Contains(s, c) == \E i \in 1..Len(s) : s[i] = c

IndexOf(s, c) == CHOOSE i \in 1..Len(s) : s[i] = c /\ \A j \in 1..(i - 1) : s[j] # c

\* s.replace(c, ''), for a one-chunk c
RECURSIVE Remove(_, _)
Remove(s, c) ==
    IF s = <<>> THEN <<>>
    ELSE IF Head(s) = c THEN Remove(Tail(s), c)
    ELSE <<Head(s)>> \o Remove(Tail(s), c)

\* " ".join(parts)
RECURSIVE JoinWith(_, _)
JoinWith(parts, sep) ==
    IF parts = <<>> THEN <<>>
    ELSE IF Len(parts) = 1 THEN parts[1]
    ELSE parts[1] \o sep \o JoinWith(Tail(parts), sep)

\* 'a_b_c' from its words
Under(words) == JoinWith([i \in 1..Len(words) |-> <<words[i]>>], <<"_">>)

\* '/*' is a prefix of both comment openers
IsOpener(c) == c \in {"/*", "/**"}

\* paramlist_re.split(s), paramlist_re = \s*,\s*
RECURSIVE SplitList(_, _)
SplitList(s, cur) ==
    IF s = <<>> THEN <<cur>>
    ELSE IF Head(s) = ","
         THEN <<rstrip(cur)>> \o SplitList(lstrip(Tail(s)), <<>>)
    ELSE SplitList(Tail(s), Append(cur, Head(s)))

paramlist_split(s) == SplitList(s, <<>>)

----------------------------------------------------------------------------
(* int() and str() *)

Digits == <<"0", "1", "2", "3", "4", "5", "6", "7", "8", "9",
            "a", "b", "c", "d", "e", "f">>

DigitValue(c) == (CHOOSE i \in 1..Len(Digits) : Digits[i] = c) - 1

RECURSIVE IntOfDigits(_, _, _)
IntOfDigits(ds, base, acc) ==
    IF ds = <<>> THEN acc
    ELSE IntOfDigits(Tail(ds), base, acc * base + DigitValue(Head(ds)))

\* int(v, 16) for v = 0x<digits>
int16(v) == IntOfDigits(Tail(v), 16, 0)

\* int(v)
int10(v) ==
    IF startswith(v, "-") THEN 0 - IntOfDigits(Tail(v), 10, 0)
    ELSE IntOfDigits(v, 10, 0)

RECURSIVE StrNat(_)
StrNat(n) ==
    IF n < 10 THEN <<Digits[n + 1]>>
    ELSE StrNat(n \div 10) \o <<Digits[(n % 10) + 1]>>

\* str(val)
str(n) == IF n < 0 THEN <<"-">> \o StrNat(0 - n) ELSE StrNat(n)

----------------------------------------------------------------------------
(* Parser.parse_typedef *)

\* The value v, computed once, under the name Body gives it
Bind(v, Body(_)) == CHOOSE r \in { Body(x) : x \in {v} } : TRUE

\* the first index from i on that holds no whitespace
RECURSIVE SkipSpace(_, _)
SkipSpace(s, i) == IF i <= Len(s) /\ IsSpace(s[i]) THEN SkipSpace(s, i + 1) ELSE i

\* re.match('^(?:typedef\s+)?enum', l): the index of the enum keyword, or 0
EnumStart(l) ==
    IF startswith(l, "enum") THEN 1
    ELSE IF /\ startswith(l, "typedef")
            /\ Len(l) >= 3
            /\ IsSpace(l[2])
            /\ SkipSpace(l, 2) <= Len(l)
            /\ l[SkipSpace(l, 2)] = "enum"
         THEN SkipSpace(l, 2)
    ELSE 0

\* \s*(?:\S+)?; matches from index c + 1
EnumTail(l, c) ==
    \E q \in (c + 1)..Len(l) :
        /\ l[q] = ";"
        /\ \E k \in (c + 1)..q :
               /\ \A j \in (c + 1)..(k - 1) : IsSpace(l[j])
               /\ \A j \in k..(q - 1) : ~IsSpace(l[j])

\* Where the name group (\S+) of enum_re may end: a run of chunks that are no
\* whitespace, from index ns on, with the opening brace next after \s*
NameEnds(l, ns) ==
    { ne \in ns..Len(l) :
        /\ \A j \in ns..ne : ~IsSpace(l[j])
        /\ SkipSpace(l, ne + 1) <= Len(l)
        /\ l[SkipSpace(l, ne + 1)] = "{" }

\* Where the closing brace may be, the opening one being at b: the data
\* group (.+) is not empty
Closers(l, b) ==
    { c \in (b + 2)..Len(l) : l[c] = "}" /\ EnumTail(l, c) }

\* The matches of enum_re at the start of l, as <<ne, c>>: the name group ends
\* at ne and the closing brace is at c
EnumMatches(l) ==
    LET e  == EnumStart(l)
        ns == SkipSpace(l, e + 1)
    IN  IF e = 0 THEN {}
        ELSE UNION { { <<ne, c>> : c \in Closers(l, SkipSpace(l, ne + 1)) } :
                     ne \in NameEnds(l, ns) }

\* enum_re.match(l): <<>> when there is no match, else the groups <<name, data>>.
\* Both groups are greedy: the longest name, then the longest data.
enum_re(l) ==
    LET ms == EnumMatches(l)
    IN  IF ms = {} THEN <<>>
        ELSE LET m == CHOOSE x \in ms : \A y \in ms :
                          \/ y[1] < x[1]
                          \/ y[1] = x[1] /\ y[2] <= x[2]
                 ns == SkipSpace(l, EnumStart(l) + 1)
             IN  << SubSeq(l, ns, m[1]),
                    SubSeq(l, SkipSpace(l, m[1] + 1) + 1, m[2] - 1) >>

\* EnumValues with the counter left alone by an explicit value
RECURSIVE EnumValues_CounterKept(_, _, _)
EnumValues_CounterKept(members, val, values) ==
    IF members = <<>> THEN values
    ELSE LET l == strip(Head(members)) IN
         IF l # <<>> /\ IsOpener(l[1])
         THEN EnumValues_CounterKept(Tail(members), val, values)
         ELSE IF Contains(l, "=")
         THEN LET i == IndexOf(l, "=")
                  n == rstrip(SubSeq(l, 1, i - 1))
                  v == lstrip(SubSeq(l, i + 1, Len(l)))
              IN  EnumValues_CounterKept(Tail(members), val + 1, Append(values, <<n, v>>))
         ELSE EnumValues_CounterKept(Tail(members), val + 1,
                         IF l # <<>> THEN Append(values, <<l, str(val)>>) ELSE values)

\* The loop over the member list (generate.py lines 174-190): val is the
\* running counter, values the list built so far.
RECURSIVE EnumValues(_, _, _)
EnumValues(members, val, values) ==
    IF members = <<>> THEN values
    ELSE LET l == strip(Head(members)) IN
         IF l # <<>> /\ IsOpener(l[1])
         THEN EnumValues(Tail(members), val, values)
         ELSE IF Contains(l, "=")
         THEN LET i == IndexOf(l, "=")
                  n == rstrip(SubSeq(l, 1, i - 1))
                  v == lstrip(SubSeq(l, i + 1, Len(l)))
                  x == IF startswith(v, "0x") THEN int16(v) ELSE int10(v)
              IN  EnumValues(Tail(members), x + 1, Append(values, <<n, v>>))
         ELSE EnumValues(Tail(members), val + 1,
                         IF l # <<>> THEN Append(values, <<l, str(val)>>) ELSE values)

\* str.lower and str.capitalize on the words the model's comments use
lower(c) ==
    CASE c = "State"  -> "state"
      [] c = "Player" -> "player"
      [] OTHER        -> c

upper_first(c) ==
    CASE c = "state"  -> "State"
      [] c = "player" -> "Player"
      [] c = "of"     -> "Of"
      [] OTHER        -> c

capitalize(s) ==
    [i \in 1..Len(s) |-> IF i = 1 THEN upper_first(lower(s[i])) ELSE lower(s[i])]

RECURSIVE rstrip_dot(_)
rstrip_dot(s) ==
    IF endswith(s, ".") THEN rstrip_dot(SubSeq(s, 1, Len(s) - 1)) ELSE s

\* "Clean up comment text" (lines 197-202)
CleanComment(comment) ==
    LET c1 == IF endswith(comment, "*/")
              THEN SubSeq(comment, 1, Len(comment) - 1) ELSE comment
        c2 == strip(c1)
    IN  IF c2 # <<>> THEN rstrip_dot(capitalize(c2)) \o <<".">> ELSE c2

\* "Anonymous enum. Use a dummy name." (line 193)
AnonymousName == Under(<<"libvlc", "enum", "t">>)

\* The state of the loop over the lines of the file
TypedefStart ==
    [accumulator |-> <<>>, comment |-> <<>>, in_simple |-> FALSE,
     simple_comment |-> <<>>, res |-> <<>>]

\* lines 170-205: match the definition l and yield it
TypedefYield(st, l) ==
    LET m == enum_re(l) IN
    IF m = <<>> THEN st
    ELSE [st EXCEPT
            !.res = Append(@, [typ     |-> <<"enum">>,
                               name    |-> IF m[1] = <<>> THEN AnonymousName
                                           ELSE strip(m[1]),
                               values  |-> EnumValues(paramlist_split(m[2]), 0, <<>>),
                               comment |-> CleanComment(st.comment)]),
            !.comment = <<>>]

\* One iteration of the loop of parse_typedef over the raw line raw
TypedefLine(st, raw) ==
    IF startswith(lstrip(raw), "/**")
    THEN [st EXCEPT !.comment = Tail(raw)]
    ELSE IF startswith(raw, " * ")
    THEN [st EXCEPT !.comment = @ \o Tail(raw)]
    ELSE LET l == strip(raw) IN
    IF startswith(l, "/*")
    THEN IF endswith(l, "*/")
         THEN [st EXCEPT !.in_simple = FALSE, !.simple_comment = <<>>]
         ELSE [st EXCEPT !.in_simple = TRUE, !.simple_comment = Tail(l)]
    ELSE IF st.in_simple
    THEN IF endswith(l, "*/")
         THEN [st EXCEPT !.in_simple = FALSE, !.simple_comment = <<>>]
         ELSE [st EXCEPT !.simple_comment = @ \o l]
    ELSE IF EnumStart(l) # 0 /\ ~endswith(l, ";")
    THEN [st EXCEPT !.accumulator = l]
    ELSE IF st.accumulator # <<>>
    THEN LET l2  == IF \E i \in 1..Len(l) : IsOpener(l[i])
                    THEN SubSeq(l, 1, (CHOOSE i \in 1..Len(l) :
                                 IsOpener(l[i]) /\ \A j \in 1..(i - 1) : ~IsOpener(l[j])) - 1)
                    ELSE l
             acc == st.accumulator \o <<" ">> \o l2
         IN  IF endswith(l2, ";")
             THEN TypedefYield([st EXCEPT !.accumulator = <<>>], acc)
             ELSE [st EXCEPT !.accumulator = acc]
    ELSE TypedefYield(st, l)

RECURSIVE TypedefLoop(_, _)
TypedefLoop(st, lines) ==
    IF lines = <<>> THEN st
    ELSE TypedefLoop(TypedefLine(st, Head(lines)), Tail(lines))

parse_typedef(lines) == TypedefLoop(TypedefStart, lines).res

----------------------------------------------------------------------------
(* Parser.parse_param *)

\* the last index of the run of whitespace (of no whitespace, of stars) that
\* starts at i; i - 1 when the run is empty
RECURSIVE SpaceEnd(_, _)
SpaceEnd(s, i) == IF i <= Len(s) /\ IsSpace(s[i]) THEN SpaceEnd(s, i + 1) ELSE i - 1

RECURSIVE WordEnd(_, _)
WordEnd(s, i) == IF i <= Len(s) /\ ~IsSpace(s[i]) THEN WordEnd(s, i + 1) ELSE i - 1

RECURSIVE StarEnd(_, _)
StarEnd(s, i) == IF i <= Len(s) /\ s[i] = "*" THEN StarEnd(s, i + 1) ELSE i - 1

\* (\S+\s*\**)\s+(.+) matched at index q of s: <<>> when it does not match,
\* else <<the end of the type group, the start of the name group>>.  \S+,
\* \s* and \** are greedy: the stars go to the type when whitespace and a
\* name follow them, and to the name otherwise.
ParamCore(s, q) ==
    LET r == WordEnd(s, q)
        w == SpaceEnd(s, r + 1)
        t == StarEnd(s, w + 1)
        u == SpaceEnd(s, t + 1)
    IN  IF q > Len(s) \/ r < q \/ w = r THEN <<>>
        ELSE IF t > w /\ u > t /\ u < Len(s) THEN <<t, u + 1>>
        ELSE IF t > w /\ u >= t + 2 THEN <<t, Len(s)>>
        ELSE IF w < Len(s) THEN <<r, w + 1>>
        ELSE IF w >= r + 2 THEN <<r, Len(s)>>
        ELSE <<>>

\* param_re.search(s): <<>> when there is no match, else the groups
\* <<typ, name>>.  The qualifier group is tried first.
param_re(s) ==
    LET p  == SkipSpace(s, 1)
        q  == SkipSpace(s, p + 1)
        qm == IF p <= Len(s) /\ s[p] \in {"const", "unsigned", "struct"}
              THEN ParamCore(s, q) ELSE <<>>
        pm == ParamCore(s, p)
    IN  IF qm # <<>> THEN <<SubSeq(s, q, qm[1]), SubSeq(s, qm[2], Len(s))>>
        ELSE IF pm # <<>> THEN <<SubSeq(s, p, pm[1]), SubSeq(s, pm[2], Len(s))>>
        ELSE <<>>

\* while name.startswith('*'): typ += '*'; name = name[1:]
RECURSIVE MoveStars(_, _)
MoveStars(typ, name) ==
    IF startswith(name, "*") THEN MoveStars(typ \o <<"*">>, Tail(name))
    ELSE <<typ, name>>

\* parse_param(s): <<type, name>>.  The model's sources hold no VLC_FORWARD.
parse_param(s0) ==
    LET s == Remove(strip(s0), "const")
        m == param_re(s)
    IN  IF m # <<>>
        THEN LET tn == MoveStars(m[1], m[2])
             IN  <<Remove(tn[1], " "),
                   IF tn[2] = <<"const", "*">> THEN <<>> ELSE tn[2]>>
        ELSE <<Remove(s, " "), <<>>>>

----------------------------------------------------------------------------
(* Parser.parse_include *)

\* \(\s*(.+?)\s*\) with the opening parenthesis at o: <<>>, or
\* <<start, end>> of the lazy parameter group
ApiParams(l, o) ==
    LET ps   == SkipSpace(l, o + 1)
        ends == { pe \in ps..Len(l) :
                    SkipSpace(l, pe + 1) <= Len(l) /\ l[SkipSpace(l, pe + 1)] = ")" }
    IN  IF ends # {} THEN <<ps, CHOOSE pe \in ends : \A x \in ends : pe <= x>>
        ELSE IF ps - 1 > o /\ ps <= Len(l) /\ l[ps] = ")" THEN <<ps - 1, ps - 1>>
        ELSE <<>>

\* \s*\(\s*(.+?)\s*\) matches after index ge
ApiRest(l, ge) ==
    /\ SkipSpace(l, ge + 1) <= Len(l)
    /\ l[SkipSpace(l, ge + 1)] = "("
    /\ ApiParams(l, SkipSpace(l, ge + 1)) # <<>>

\* api_re.match(l): <<>> when there is no match, else the groups
\* <<return type and name, parameter list>>.  Both groups are lazy.
api_re(l) ==
    LET g   == SkipSpace(l, 2)
        r1  == WordEnd(l, g)
        w1  == SpaceEnd(l, r1 + 1)
        ges == { ge \in (w1 + 1)..Len(l) : ApiRest(l, ge) }
        gws == { ge \in (r1 + 2)..w1 : ApiRest(l, ge) }
    IN  IF ~(startswith(l, "VLC_PUBLIC_API") /\ g > 2 /\ r1 >= g /\ w1 > r1)
        THEN <<>>
        ELSE IF ges \cup gws = {} THEN <<>>
        ELSE LET ge == IF ges # {} THEN CHOOSE x \in ges : \A y \in ges : x <= y
                       ELSE CHOOSE x \in gws : \A y \in gws : x >= y
                 pg == ApiParams(l, SkipSpace(l, ge + 1))
             IN  <<SubSeq(l, g, ge), SubSeq(l, pg[1], pg[2])>>

\* comment_re = 'param' \s+ (\S+): the tag may close any word
IsParamTag(c) == c \in {"\\param", "@param", "param"}

\* comment_re.findall(c), scanning from index i
RECURSIVE FindParams(_, _)
FindParams(c, i) ==
    IF i > Len(c) THEN <<>>
    ELSE IF /\ IsParamTag(c[i])
            /\ SpaceEnd(c, i + 1) > i
            /\ WordEnd(c, SpaceEnd(c, i + 1) + 1) > SpaceEnd(c, i + 1)
         THEN LET a == SpaceEnd(c, i + 1) + 1
                  b == WordEnd(c, a)
              IN  <<SubSeq(c, a, b)>> \o FindParams(c, b + 1)
    ELSE FindParams(c, i + 1)

comment_re_findall(c) == FindParams(c, 1)

\* BadName counting the parameters from 1
BadName_OneBased(i) == <<"param">> \o str(i)

\* "param%d" % i, for the i-th parameter counted from 1
BadName(i) == <<"param">> \o str(i - 1)

\* lines 257-265: the names of n parameters from the comment's tags
RecoveredNames(names, n) ==
    IF Len(names) < n
    THEN [i \in 1..n |-> IF i <= Len(names) THEN names[i] ELSE BadName(i)]
    ELSE names

\* CollapseVoid looking at the parameter's name instead of its type
CollapseVoid_ByName(parsed) ==
    IF Len(parsed) = 1 /\ parsed[1][2] = <<"void">> THEN <<>> ELSE parsed

\* "Empty parameter list" (lines 251-253)
CollapseVoid(parsed) ==
    IF Len(parsed) = 1 /\ parsed[1][1] = <<"void">> THEN <<>> ELSE parsed

\* The state of the loop over the lines of the file
IncludeStart == [accumulator |-> <<>>, comment |-> <<>>, res |-> <<>>, printed |-> <<>>]

\* lines 247-253: the parameters of the parameter text
ParseParams(param) ==
    Bind(paramlist_split(param), LAMBDA split :
        CollapseVoid([i \in 1..Len(split) |-> parse_param(split[i])]))

\* lines 255-271: the names of the parameters, from the comment's tags
\* when one of them is empty
NameParams(params, tags) ==
    IF \E i \in 1..Len(params) : params[i][2] = <<>>
    THEN Bind(RecoveredNames(tags, Len(params)), LAMBDA names :
             [i \in 1..Len(params) |-> <<params[i][1], names[i]>>])
    ELSE params

\* lines 258, 266-267: what is printed about the method, if anything
PrintBad(printed, method, params, tags, comment) ==
    IF /\ \E i \in 1..Len(params) : params[i][2] = <<>>
       /\ Len(tags) < Len(params)
    THEN Append(printed,
                [method  |-> method,
                 comment |-> [i \in 1..Len(comment) |->
                                IF comment[i] = "\n" THEN " " ELSE comment[i]]])
    ELSE printed

\* lines 241-285: match the prototype l and yield it
IncludeYield(st, l) ==
    Bind(api_re(l), LAMBDA m :
    IF m = <<>> THEN st
    ELSE Bind(parse_param(m[1]), LAMBDA rm :
         Bind(ParseParams(m[2]), LAMBDA params :
         Bind(comment_re_findall(st.comment), LAMBDA tags :
             [accumulator |-> st.accumulator,
              comment     |-> <<>>,
              res         |-> Append(st.res,
                                [rtype   |-> rm[1],
                                 method  |-> rm[2],
                                 params  |-> NameParams(params, tags),
                                 comment |-> st.comment]),
              printed     |-> PrintBad(st.printed, rm[2], params, tags,
                                       st.comment)]))))

\* One iteration of the loop of parse_include over the raw line raw
IncludeLine(st, raw) ==
    IF startswith(lstrip(raw), "/**")
    THEN [st EXCEPT !.comment = <<>>]
    ELSE IF startswith(raw, " * ")
    THEN [st EXCEPT !.comment = @ \o Tail(raw)]
    ELSE LET l == strip(raw) IN
    IF st.accumulator # <<>>
    THEN LET acc == st.accumulator \o <<" ">> \o l
         IN  IF Len(l) >= 2 /\ l[Len(l) - 1] = ")" /\ l[Len(l)] = ";"
             THEN IncludeYield([st EXCEPT !.accumulator = <<>>], acc)
             ELSE IncludeYield([st EXCEPT !.accumulator = acc], l)
    ELSE IF startswith(l, "VLC_PUBLIC_API")
            /\ ~(Len(l) >= 2 /\ l[Len(l) - 1] = ")" /\ l[Len(l)] = ";")
    THEN [st EXCEPT !.accumulator = l]
    ELSE IncludeYield(st, l)

RECURSIVE IncludeLoop(_, _)
IncludeLoop(st, lines) ==
    IF lines = <<>> THEN st
    ELSE Bind(IncludeLine(st, Head(lines)), LAMBDA st2 :
             IncludeLoop(st2, Tail(lines)))

\* parse_include(name): what it yields, and what it prints
parse_include(lines) == IncludeLoop(IncludeStart, lines).res

parse_include_printed(lines) == IncludeLoop(IncludeStart, lines).printed

----------------------------------------------------------------------------
(* sorted() *)

\* The chunks the model sorts on, in the order of their characters' codes
AsciiOrder ==
    <<"\n", " ", "#", "(", ")", "*", ".", "0", "1", "2", "3", "4", "5", "6",
      "7", "8", "9", "=", "Ended", "Error", "EventManager", "FIXME_",
      "Instance", "Log", "LogIterator", "Media", "MediaDiscoverer",
      "MediaLibrary", "MediaList", "MediaListPlayer", "MediaListView",
      "MediaPlayer", "Playing", "State", "_", "a", "audio", "b", "c",
      "callbacks", "count", "d", "e", "exit", "f", "free", "get", "handler",
      "instance", "int", "item_at_index", "libvlc", "list", "log", "media",
      "new", "play", "player", "pos", "release", "set", "state", "t",
      "version", "video", "void", "x">>

Rank(c) ==
    IF \E i \in 1..Len(AsciiOrder) : AsciiOrder[i] = c
    THEN CHOOSE i \in 1..Len(AsciiOrder) : AsciiOrder[i] = c
    ELSE 0

\* a < b, for two strings
TextLess(a, b) ==
    \E i \in 1..(Len(b)) :
        /\ \A j \in 1..(i - 1) : j <= Len(a) /\ a[j] = b[j]
        /\ \/ i > Len(a)
           \/ i <= Len(a) /\ Rank(a[i]) < Rank(b[i])

\* Insert the pair x = <<key, item>> into the sorted list s, after its equals
RECURSIVE Insert(_, _)
Insert(s, x) ==
    IF s = <<>> THEN <<x>>
    ELSE IF TextLess(x[1], Head(s)[1]) THEN <<x>> \o s
    ELSE <<Head(s)>> \o Insert(Tail(s), x)

\* sorted(s, key=operator.itemgetter(0)), a stable sort, for pairs <<key, item>>
RECURSIVE SortedByKey(_)
SortedByKey(s) ==
    IF s = <<>> THEN <<>>
    ELSE Insert(SortedByKey(SubSeq(s, 1, Len(s) - 1)), s[Len(s)])

\* sorted(s), for a list of strings
sorted(s) ==
    LET r == SortedByKey([i \in 1..Len(s) |-> <<s[i], s[i]>>])
    IN  [i \in 1..Len(r) |-> r[i][2]]

----------------------------------------------------------------------------
(* PythonGenerator: type2class, convert_enum_names, generate_enums *)

Ptr(words) == Under(words) \o <<"*">>

\* The class attribute type2class as generate.py writes it (lines 305-344)
BaseTable ==
    << <<Ptr(<<"libvlc", "media", "player", "t">>), <<"MediaPlayer">>>>,
       <<Ptr(<<"libvlc", "instance", "t">>), <<"Instance">>>>,
       <<Ptr(<<"libvlc", "media", "t">>), <<"Media">>>>,
       <<Ptr(<<"libvlc", "log", "t">>), <<"Log">>>>,
       <<Ptr(<<"libvlc", "log", "iterator", "t">>), <<"LogIterator">>>>,
       <<Ptr(<<"libvlc", "log", "message", "t">>), <<"ctypes.POINTER(LogMessage)">>>>,
       <<Under(<<"libvlc", "event", "type", "t">>), <<"ctypes.c_uint">>>>,
       <<Ptr(<<"libvlc", "event", "manager", "t">>), <<"EventManager">>>>,
       <<Ptr(<<"libvlc", "media", "discoverer", "t">>), <<"MediaDiscoverer">>>>,
       <<Ptr(<<"libvlc", "media", "library", "t">>), <<"MediaLibrary">>>>,
       <<Ptr(<<"libvlc", "media", "list", "t">>), <<"MediaList">>>>,
       <<Ptr(<<"libvlc", "media", "list", "player", "t">>), <<"MediaListPlayer">>>>,
       <<Ptr(<<"libvlc", "media", "list", "view", "t">>), <<"MediaListView">>>>,
       <<Ptr(<<"libvlc", "track", "description", "t">>),
         <<"ctypes.POINTER(TrackDescription)">>>>,
       <<Ptr(<<"libvlc", "audio", "output", "t">>), <<"ctypes.POINTER(AudioOutput)">>>>,
       <<Ptr(<<"libvlc", "media", "stats", "t">>), <<"ctypes.POINTER(MediaStats)">>>>,
       <<Ptr(<<"libvlc", "media", "track", "info", "t">>) \o <<"*">>,
         <<"ctypes.POINTER(ctypes.POINTER(MediaTrackInfo))">>>>,
       <<Under(<<"libvlc", "drawable", "t">>), <<"ctypes.c_uint">>>>,
       <<Ptr(<<"libvlc", "rectangle", "t">>), <<"ctypes.POINTER(Rectangle)">>>>,
       <<<<"WINDOWHANDLE">>, <<"ctypes.c_ulong">>>>,
       <<<<"void">>, <<"None">>>>,
       <<<<"void", "*">>, <<"ctypes.c_void_p">>>>,
       <<<<"short">>, <<"ctypes.c_short">>>>,
       <<<<"char", "*">>, <<"ctypes.c_char_p">>>>,
       <<<<"char", "*", "*">>, <<"ListPOINTER(ctypes.c_char_p)">>>>,
       <<<<"uint32_t">>, <<"ctypes.c_uint32">>>>,
       <<<<"int64_t">>, <<"ctypes.c_int64">>>>,
       <<<<"float">>, <<"ctypes.c_float">>>>,
       <<<<"unsigned">>, <<"ctypes.c_uint">>>>,
       <<<<"unsigned", "*">>, <<"ctypes.POINTER(ctypes.c_uint)">>>>,
       <<<<"int">>, <<"ctypes.c_int">>>>,
       <<<<"int", "*">>, <<"ctypes.POINTER(ctypes.c_int)">>>>,
       <<<<"...">>, <<"FIXME_va_list">>>>,
       <<Under(<<"libvlc", "callback", "t">>), <<"ctypes.c_void_p">>>>,
       <<Under(<<"libvlc", "time", "t">>), <<"ctypes.c_longlong">>>> >>

\* dict(pairs)
Dict(pairs) ==
    [k \in {pairs[i][1] : i \in 1..Len(pairs)} |->
        (LET i == CHOOSE i \in 1..Len(pairs) :
                    pairs[i][1] = k /\ \A j \in (i + 1)..Len(pairs) : pairs[j][1] # k
         IN  pairs[i][2])]

\* d.update(e)
Update(d, e) == e @@ d

\* s.split('_')
RECURSIVE SplitUnder(_, _)
SplitUnder(s, cur) ==
    IF s = <<>> THEN <<cur>>
    ELSE IF Head(s) = "_" THEN <<cur>> \o SplitUnder(Tail(s), <<>>)
    ELSE SplitUnder(Tail(s), Append(cur, Head(s)))

\* The chunks of the model that are one character long
OneChar == {Digits[i] : i \in 1..Len(Digits)} \cup {"_", "*", "t", "x", "A", "B"}

\* len(s) <= 1
AtMostOneChar(s) == s = <<>> \/ (Len(s) = 1 /\ s[1] \in OneChar)

\* s[0].isdigit()
isdigit0(s) == s[1] \in {Digits[i] : i \in 1..10}

\* SymbolName without the rule for a leading digit
SymbolName_DigitFirst(k) ==
    LET ks == SplitUnder(k, <<>>)
        n1 == ks[Len(ks)]
    IN  IF AtMostOneChar(n1)
        THEN JoinWith(SubSeq(ks, IF Len(ks) >= 2 THEN Len(ks) - 1 ELSE 1, Len(ks)),
                      <<"_">>)
        ELSE n1

\* "Convert symbol names" (generate.py lines 476-481)
SymbolName(k) ==
    LET ks == SplitUnder(k, <<>>)
        n1 == ks[Len(ks)]
        n2 == IF AtMostOneChar(n1)
              THEN JoinWith(SubSeq(ks, IF Len(ks) >= 2 THEN Len(ks) - 1 ELSE 1, Len(ks)),
                            <<"_">>)
              ELSE n1
    IN  IF isdigit0(n2) THEN <<"_">> \o n2 ELSE n2

\* s[0].isupper(), on the words of the model
isupper0(s) == lower(s[1]) # s[1]

\* s.title().replace('_', '')
TitleNoUnder(s) == Remove([i \in 1..Len(s) |-> upper_first(lower(s[i]))], "_")

\* re.findall('libvlc_(.+?)(_t)?$', name): the indices at which 'libvlc_'
\* starts with something after it
StemStarts(name) ==
    { i \in 1..(Len(name) - 2) : name[i] = "libvlc" /\ name[i + 1] = "_" }

\* ...[0][0]: the stem of the first match, without a closing '_t'
Stem(name) ==
    LET i    == CHOOSE i \in StemStarts(name) : \A j \in StemStarts(name) : i <= j
        rest == SubSeq(name, i + 2, Len(name))
    IN  IF Len(rest) > 2 /\ rest[Len(rest) - 1] = "_" /\ rest[Len(rest)] = "t"
        THEN SubSeq(rest, 1, Len(rest) - 2)
        ELSE rest

\* The Python name of the enum called name (generate.py lines 432-438)
PyName(name) ==
    IF name = Under(<<"libvlc", "event", "e">>) THEN <<"EventType">>
    ELSE IF Contains(Stem(name), "_") THEN TitleNoUnder(Stem(name))
    ELSE IF ~isupper0(Stem(name)) THEN capitalize(Stem(name))
    ELSE Stem(name)

\* convert_enum_names fails: findall(...)[0] of an empty list
ConvertFails(es) == \E i \in 1..Len(es) : StemStarts(es[i].name) = {}

convert_enum_names(es) == Dict([i \in 1..Len(es) |-> <<es[i].name, PyName(es[i].name)>>])

\* One thing written to the output: sec is the part of the file it belongs
\* to, kind what it is, x and y its variable text.
Item(sec, kind, x, y) == [sec |-> sec, kind |-> kind, x |-> x, y |-> y]

RECURSIVE Concat(_)
Concat(ss) == IF ss = <<>> THEN <<>> ELSE Head(ss) \o Concat(Tail(ss))

\* generate_enums, one enum (lines 467-490)
EnumBlock(e, t2c) ==
    LET pyname == t2c[e.name]
        names  == [i \in 1..Len(e.values) |->
                     Item("enums", "name", e.values[i][2], SymbolName(e.values[i][1]))]
        l      == [i \in 1..Len(e.values) |->
                     pyname \o <<".">> \o SymbolName(e.values[i][1]) \o <<"=">>
                     \o pyname \o <<"(">> \o e.values[i][2] \o <<")">>]
        attrs  == [i \in 1..Len(l) |-> Item("enums", "attr", sorted(l)[i], <<>>)]
    IN  << Item("enums", "class", pyname, <<>>),
           Item("enums", "docstring", e.comment, <<>>),
           Item("enums", "names_open", <<>>, <<>>) >>
        \o names
        \o << Item("enums", "names_close", <<>>, <<>>) >>
        \o attrs
        \o << Item("enums", "blank", <<>>, <<>>) >>

generate_enums(es, t2c) ==
    << Item("enums", "enum_base", <<>>, <<>>) >>
    \o Concat([i \in 1..Len(es) |-> EnumBlock(es[i], t2c)])

NoError == [kind |-> "none", typ |-> <<>>, met |-> <<>>, name |-> <<>>]

----------------------------------------------------------------------------
(* blacklist, paramFlag3, defined_classes *)

\* Methods not decorated/not referenced (lines 40-43)
blacklist ==
    { Under(<<"libvlc", "set", "exit", "handler">>),
      Under(<<"libvlc", "video", "set", "callbacks">>) }

\* class Flag (lines 59-62)
FlagIn == 1
FlagOut == 2
FlagInOut == 3

\* paramFlag3 with an empty table: every type is Flag.In
paramFlag3_AllIn(typ) == <<FlagIn>>

\* paramFlag3(typ): a 1-tuple
paramFlag3(typ) ==
    IF typ \in {<<"int", "*">>, <<"unsigned", "*">>} THEN <<FlagOut>>
    ELSE IF typ = Ptr(<<"libvlc", "exception", "t">>) THEN <<FlagInOut>>
    ELSE <<FlagIn>>

defined_classes ==
    { <<"MediaPlayer">>, <<"Instance">>, <<"Media">>, <<"Log">>, <<"LogIterator">>,
      <<"EventManager">>, <<"MediaDiscoverer">>, <<"MediaLibrary">>,
      <<"MediaList">>, <<"MediaListPlayer">>, <<"MediaListView">> }

----------------------------------------------------------------------------
(* PythonGenerator.epydoc_comment *)

\* The chain of replace() calls of lines 558-561, on one chunk
EpyToken(c) ==
    IF c \in {"@{", "\\ingroup"} THEN <<>>
    ELSE IF c \in {"@see", "\\see"} THEN <<"See">>
    ELSE IF c = "\\note" THEN <<"NOTE:">>
    ELSE IF c = "\\warning" THEN <<"WARNING:">>
    ELSE IF c = "\\param" THEN <<"@param">>
    ELSE IF c = "\\return" THEN <<"@return">>
    ELSE <<c>>

\* s.split(c), for a one-chunk c
RECURSIVE SplitOn(_, _, _)
SplitOn(s, c, cur) ==
    IF s = <<>> THEN <<cur>>
    ELSE IF Head(s) = c THEN <<cur>> \o SplitOn(Tail(s), c, <<>>)
    ELSE SplitOn(Tail(s), c, Append(cur, Head(s)))

\* s.splitlines(), for a string that does not end a line
splitlines(s) == IF s = <<>> THEN <<>> ELSE SplitOn(s, "\n", <<>>)

\* python_param_re = (@param\s+\S+)(.+) searched in l from index i: <<>>, or
\* the last index of the first group.  \S+ leaves the second group one
\* character when the name ends the line.
RECURSIVE PythonParam(_, _)
PythonParam(l, i) ==
    IF i > Len(l) THEN <<>>
    ELSE IF l[i] = "@param" /\ SpaceEnd(l, i + 1) > i
    THEN LET a == SpaceEnd(l, i + 1) + 1
             b == WordEnd(l, a)
         IN  IF b >= a /\ b < Len(l) THEN <<b>>
             ELSE IF b > a /\ b = Len(l) /\ l[b] \in OneChar THEN <<b - 1>>
             ELSE PythonParam(l, i + 1)
    ELSE PythonParam(l, i + 1)

\* python_param_re.sub('\\1:\\2', l)
ParamColon(l) ==
    IF PythonParam(l, 1) = <<>> THEN l
    ELSE SubSeq(l, 1, PythonParam(l, 1)[1]) \o <<":">>
         \o SubSeq(l, PythonParam(l, 1)[1] + 1, Len(l))

\* l.replace('@return', '@return:')
ReturnColon(l) == [i \in 1..Len(l) |-> IF l[i] = "@return" THEN "@return:" ELSE l[i]]

\* The chunks made of the characters of "@param " only
ParamChars == {"@param", "param", " ", "p", "a", "r", "m", "@"}

RECURSIVE StripLeft(_)
StripLeft(s) == IF s # <<>> /\ Head(s) \in ParamChars THEN StripLeft(Tail(s)) ELSE s

RECURSIVE StripRight(_)
StripRight(s) ==
    IF s # <<>> /\ s[Len(s)] \in ParamChars THEN StripRight(SubSeq(s, 1, Len(s) - 1))
    ELSE s

\* python_param_re.findall(l)[0][0].strip("@param "), for an [OUT] line whose
\* parameter name neither starts nor ends a chunk with one of these characters
OutParam(l) ==
    LET i == IndexOf(l, "@param")
    IN  StripRight(StripLeft(SubSeq(l, i, PythonParam(l, 1)[1])))

\* epydoc_comment(comment, fix_first)
epydoc_comment(comment, fix_first) ==
    LET IsParam(l)  == Contains(l, "@param")
        IsReturn(l) == Contains(l, "@return")
        IsOut(l)    == Contains(l, "[OUT]")
        IsDoc(l)    == ~IsParam(l) /\ ~IsReturn(l)
        IsIn(l)     == IsParam(l) /\ ~IsOut(l)
        IsOutP(l)   == IsParam(l) /\ IsOut(l)
    IN
    Bind(splitlines(strip(Concat([i \in 1..Len(comment) |-> EpyToken(comment[i])]))),
         LAMBDA lines :
    Bind(SelectSeq(lines, IsOutP), LAMBDA outlines :
    Bind(SelectSeq(lines, IsIn), LAMBDA inlines :
        LET doc    == SelectSeq(lines, IsDoc)
            ret    == IF outlines # <<>>
                      THEN << <<"@return", " ">>
                              \o JoinWith([i \in 1..Len(outlines) |-> OutParam(outlines[i])],
                                          <<",", " ">>) >>
                      ELSE [i \in 1..Len(SelectSeq(lines, IsReturn)) |->
                              ReturnColon(SelectSeq(lines, IsReturn)[i])]
            params == [i \in 1..Len(inlines) |-> ParamColon(inlines[i])]
        IN  JoinWith(doc \o (IF fix_first /\ params # <<>> THEN Tail(params) ELSE params)
                         \o ret,
                     <<"\n">>))))

----------------------------------------------------------------------------
(* dict and str methods on names and code *)

\* The key None of a dict whose other keys are names
None == <<>>

\* d.get(k, default)
Get(d, k, default) == IF k \in DOMAIN d THEN d[k] ELSE default

\* d[k] = v
Put(d, k, v) == (k :> v) @@ d

\* s.startswith(t), s.endswith(t), for a string t of several chunks
StartsWithSeq(s, t) == Len(s) >= Len(t) /\ SubSeq(s, 1, Len(t)) = t

EndsWithSeq(s, t) == Len(s) >= Len(t) /\ SubSeq(s, Len(s) - Len(t) + 1, Len(s)) = t

\* t in s
HasSub(s, t) == \E i \in 1..(Len(s) - Len(t) + 1) : SubSeq(s, i, i + Len(t) - 1) = t

\* s.replace(t, '')
RECURSIVE ReplaceSeq(_, _)
ReplaceSeq(s, t) ==
    IF s = <<>> \/ t = <<>> THEN s
    ELSE IF StartsWithSeq(s, t) THEN ReplaceSeq(SubSeq(s, Len(t) + 1, Len(s)), t)
    ELSE <<Head(s)>> \o ReplaceSeq(Tail(s), t)

\* The chunks of the model that are no word: \w matches none of their
\* characters
Punct == {"(", ")", ":", ",", ";", "*", "=", ".", "{", "}", "#", "\"\"\"",
          "'''", "/**", "*/", "/*", " * "}

IsWord(c) == ~IsSpace(c) /\ c \notin Punct

----------------------------------------------------------------------------
(* PythonGenerator.parse_override *)

\* re.match('class (\S+):', l): the name, or <<>> when there is no match
ClassMarker(l) ==
    LET e      == WordEnd(l, 3)
        colons == { i \in 4..e : l[i] = ":" }
    IN  IF Len(l) >= 4 /\ l[1] = "class" /\ l[2] = " " /\ colons # {}
        THEN SubSeq(l, 3, (CHOOSE i \in colons : \A j \in colons : j <= i) - 1)
        ELSE <<>>

OverrideStart == [code |-> <<>>, current |-> None, data |-> <<>>]

\* lines 531-540: one line of the override file
OverrideLine(st, l) ==
    Bind(ClassMarker(l), LAMBDA m :
        IF m # <<>>
        THEN [code    |-> IF st.current # None
                          THEN Put(st.code, st.current, st.data) ELSE st.code,
              current |-> m,
              data    |-> <<>>]
        ELSE [st EXCEPT !.data = @ \o l])

RECURSIVE OverrideLoop(_, _)
OverrideLoop(st, lines) ==
    IF lines = <<>> THEN st
    ELSE Bind(OverrideLine(st, Head(lines)), LAMBDA st2 :
             OverrideLoop(st2, Tail(lines)))

\* lines 526-542: the code of each class
OverrideCode(lines) ==
    Bind(OverrideLoop(OverrideStart, lines), LAMBDA st :
        Put(st.code, st.current, st.data))

\* the indexes of the triple quotes of v
Quotes(v) == { i \in 1..Len(v) : v[i] = "\"\"\"" }

Nth(S, n) == CHOOSE i \in S : Cardinality({ j \in S : j <= i }) = n

HasDocstring(v) == startswith(lstrip(v), "\"\"\"")

\* v.split('"""', 2) has fewer than three parts for the code of a class, and
\* the assignment of line 548 raises ValueError
SplitFails(code0) ==
    \E k \in DOMAIN code0 :
        /\ HasDocstring(code0[k])
        /\ Cardinality(Quotes(code0[k])) < 2

OverrideFails(lines) == SplitFails(OverrideCode(lines))

\* the first index of the run of whitespace that ends at i; i + 1 when the
\* run is empty
RECURSIVE SpaceStart(_, _)
SpaceStart(s, i) == IF i >= 1 /\ IsSpace(s[i]) THEN SpaceStart(s, i - 1) ELSE i + 1

RECURSIVE WordsEnd(_, _)
WordsEnd(s, i) == IF i <= Len(s) /\ IsWord(s[i]) THEN WordsEnd(s, i + 1) ELSE i - 1

\* re.findall('^\s+def\s+(\w+)', v, re.MULTILINE), from index i on: the
\* whitespace before def starts a line, and may run over several lines
RECURSIVE DefNames(_, _)
DefNames(v, i) ==
    IF i > Len(v) THEN <<>>
    ELSE IF /\ v[i] = "def"
            /\ SpaceStart(v, i - 1) < i
            /\ \/ SpaceStart(v, i - 1) = 1
               \/ \E p \in SpaceStart(v, i - 1)..(i - 2) : v[p] = "\n"
            /\ SpaceEnd(v, i + 1) > i
            /\ WordsEnd(v, SpaceEnd(v, i + 1) + 1) > SpaceEnd(v, i + 1)
         THEN LET a == SpaceEnd(v, i + 1) + 1
                  b == WordsEnd(v, a)
              IN  <<SubSeq(v, a, b)>> \o DefNames(v, b + 1)
    ELSE DefNames(v, i + 1)

\* lines 544-553, when line 548 does not fail: (code, overriden_methods,
\* docstring) from the code of each class
Extracted(code0) ==
    LET documented == { k \in DOMAIN code0 : HasDocstring(code0[k]) }
        code == [k \in DOMAIN code0 |->
                   IF k \in documented
                   THEN SubSeq(code0[k], Nth(Quotes(code0[k]), 2) + 1, Len(code0[k]))
                   ELSE code0[k]]
    IN  [code               |-> code,
         overridden_methods |-> [k \in DOMAIN code |-> DefNames(code[k], 1)],
         docstring          |-> [k \in documented |->
                                   SubSeq(code0[k], Nth(Quotes(code0[k]), 1) + 1,
                                          Nth(Quotes(code0[k]), 2) - 1)]]

\* parse_override(name), when it does not fail
parse_override(lines) ==
    Bind(OverrideCode(lines), LAMBDA code0 : Extracted(code0))

----------------
(* PythonGenerator: check_types, output_ctypes, generate_wrappers, save *)

\* check_types(): the exception of line 411 for the first parameter whose
\* type has no conversion, or NoError
check_types(ms, t2c) ==
    LET Bad(i) == { j \in 1..Len(ms[i].params) : ms[i].params[j][1] \notin DOMAIN t2c }
        bads   == { i \in 1..Len(ms) : Bad(i) # {} }
    IN  IF bads = {} THEN NoError
        ELSE LET i == CHOOSE x \in bads : \A y \in bads : x <= y
                 j == CHOOSE x \in Bad(i) : \A y \in Bad(i) : x <= y
             IN  [kind |-> "No conversion",
                  typ  |-> ms[i].params[j][1],
                  met  |-> ms[i].method,
                  name |-> ms[i].params[j][2]]

\* self.prefixes (lines 371-373): k[:-2] for the key k of each defined class.
\* The keys of the defined classes end in the two characters t and *; each
\* class of the model has one key.
prefixes(t2c) ==
    [v \in { t2c[k] : k \in DOMAIN t2c } \cap defined_classes |->
        LET k == CHOOSE k \in DOMAIN t2c : t2c[k] = v
        IN  SubSeq(k, 1, Len(k) - 2)]

\* output_ctypes(rtype, method, params, comment)
output_ctypes(m, t2c) ==
    IF m.method \in blacklist THEN <<>>
    ELSE << Item("ctypes", "function", m.method,
                 [args    |-> <<Get(t2c, m.rtype, <<"FIXME_">> \o m.rtype)>>
                              \o [i \in 1..Len(m.params) |-> t2c[m.params[i][1]]],
                  flags   |-> [i \in 1..Len(m.params) |-> paramFlag3(m.params[i][1])],
                  comment |-> epydoc_comment(m.comment, FALSE)]) >>

\* Elements without the sort
Elements_Unsorted(ms, t2c) ==
    LET Is(i)  == /\ ms[i].params # <<>>
                  /\ Get(t2c, ms[i].params[1][1], <<"_">>) \in defined_classes
        idx    == SelectSeq([i \in 1..Len(ms) |-> i], Is)
    IN  [n \in 1..Len(idx) |-> <<t2c[ms[idx[n]].params[1][1]], idx[n]>>]

\* The methods generate_wrappers sorts: those with a first parameter of a
\* defined class (lines 585-589), as pairs <<class, index of the method>>
Elements(ms, t2c) ==
    LET Is(i)  == /\ ms[i].params # <<>>
                  /\ Get(t2c, ms[i].params[1][1], <<"_">>) \in defined_classes
        idx    == SelectSeq([i \in 1..Len(ms) |-> i], Is)
    IN  SortedByKey([n \in 1..Len(idx) |-> <<t2c[ms[idx[n]].params[1][1]], idx[n]>>])

\* lines 594-621: what opens the class classname
ClassHead(classname, ov) ==
    << Item("wrappers", "class", classname, <<>>) >>
    \o (IF classname \in DOMAIN ov.docstring
        THEN << Item("wrappers", "docstring", classname, strip(ov.docstring[classname])) >>
        ELSE <<>>)
    \o (IF ~HasSub(Get(ov.code, classname, <<>>), <<"def", " ", "__new__">>)
        THEN << Item("wrappers", "__new__", classname, <<>>) >>
        ELSE <<>>)
    \o << Item("wrappers", "from_param", classname, <<>>) >>
    \o (IF classname \in DOMAIN ov.code
        THEN << Item("wrappers", "override", classname, ov.code[classname]) >>
        ELSE <<>>)

\* line 629: the name of the method in its class
ShortName(method, prefix) ==
    ReplaceSeq(ReplaceSeq(method, prefix), <<"libvlc", "_">>)

\* Generated without the test of line 631: only the blacklist counts
Generated_OverrideIgnored(cl, m, t2c, ov) == m.method \notin blacklist

\* the method is written in its class: it is neither blacklisted nor
\* defined in override.py (lines 626-633)
Generated(cl, m, t2c, ov) ==
    /\ m.method \notin blacklist
    /\ \A i \in 1..Len(Get(ov.overridden_methods, cl, <<>>)) :
          ov.overridden_methods[cl][i] # ShortName(m.method, Get(prefixes(t2c), cl, <<>>))

\* line 636: params[0] = (params[0][0], 'self')
SelfFirst(params) ==
    [i \in 1..Len(params) |-> IF i = 1 THEN <<params[1][1], <<"self">>>> ELSE params[i]]

\* line 637: the names of the parameters that are not Flag.Out
WrapperArgs(params) ==
    LET NotOut(p) == paramFlag3(p[1])[1] # FlagOut
        kept      == SelectSeq(params, NotOut)
    IN  [i \in 1..Len(kept) |-> kept[i][2]]

\* MethodItems without the iteration of the index-accessor convention
MethodItems_NoIter(cl, m, t2c, ov) ==
    IF ~Generated(cl, m, t2c, ov) THEN <<>>
    ELSE Bind(ShortName(m.method, Get(prefixes(t2c), cl, <<>>)), LAMBDA name :
        << Item("wrappers", "method", m.method,
                [name    |-> name,
                 class   |-> cl,
                 args    |-> WrapperArgs(SelfFirst(m.params)),
                 comment |-> epydoc_comment(m.comment, TRUE)]) >>
        \o (IF name = <<"count">>
            THEN << Item("wrappers", "__len__", m.method, cl) >>
            ELSE IF EndsWithSeq(name, Under(<<"item", "at", "index">>))
            THEN << Item("wrappers", "__getitem__", m.method, cl) >>
            ELSE <<>>))

\* lines 625-662: what is written for one method of the class cl
MethodItems(cl, m, t2c, ov) ==
    IF ~Generated(cl, m, t2c, ov) THEN <<>>
    ELSE Bind(ShortName(m.method, Get(prefixes(t2c), cl, <<>>)), LAMBDA name :
        << Item("wrappers", "method", m.method,
                [name    |-> name,
                 class   |-> cl,
                 args    |-> WrapperArgs(SelfFirst(m.params)),
                 comment |-> epydoc_comment(m.comment, TRUE)]) >>
        \o (IF name = <<"count">>
            THEN << Item("wrappers", "__len__", m.method, cl) >>
            ELSE IF EndsWithSeq(name, Under(<<"item", "at", "index">>))
            THEN << Item("wrappers", "__getitem__", m.method, cl),
                    Item("wrappers", "__iter__", m.method, cl) >>
            ELSE <<>>))

\* lines 593-662: itertools.groupby opens a class at each change of the key
WrapperItems(ms, t2c, ov) ==
    Bind(Elements(ms, t2c), LAMBDA el :
        Concat([n \in 1..Len(el) |->
            (IF n = 1 \/ el[n - 1][1] # el[n][1] THEN ClassHead(el[n][1], ov) ELSE <<>>)
            \o MethodItems(el[n][1], ms[el[n][2]], t2c, ov)]))

\* WrappedMethods with ret.add before the test of the blacklist
WrappedMethods_BlacklistKept(ms, t2c) ==
    { ms[i].method : i \in { i \in 1..Len(ms) :
        /\ ms[i].params # <<>>
        /\ Get(t2c, ms[i].params[1][1], <<"_">>) \in defined_classes } }

\* the set generate_wrappers returns
WrappedMethods(ms, t2c) ==
    { ms[i].method : i \in { i \in 1..Len(ms) :
        /\ ms[i].params # <<>>
        /\ Get(t2c, ms[i].params[1][1], <<"_">>) \in defined_classes
        /\ ms[i].method \notin blacklist } }

\* parser.methods after generate_wrappers: the parameter lists of the
\* methods it has written are the parser's own lists
MethodsAfter(ms, t2c, ov) ==
    [i \in 1..Len(ms) |->
        IF /\ ms[i].method \in WrappedMethods(ms, t2c)
           /\ Generated(t2c[ms[i].params[1][1]], ms[i], t2c, ov)
        THEN [ms[i] EXCEPT !.params = SelfFirst(@)]
        ELSE ms[i]]

\* The lines of header.py that insert_code tells apart: a line of code, the
\* build_date line (line 50), the marker of the enums (line 120), and a
\* line of code after it.  Every other line of the file is a line of code.
HeaderLines ==
    << <<"#!", " ", "/usr/bin/python", "\n">>,
       Under(<<"build", "date">>) \o <<" ", " ", "=", " ", "''", "\n">>,
       <<"#", " ">> \o Under(<<"GENERATED", "ENUMS">>) \o <<"\n">>,
       <<"class", " ", "ListPOINTER", "(", "object", ")", ":", "\n">> >>

\* footer.py: lines of code
FooterLines == << <<"#", " ", "Footer", "\n">> >>

\* insert_code writing the time on every line
insert_code_Stamped(lines, sec, es, t2c, now) ==
    Concat([i \in 1..Len(lines) |->
        IF StartsWithSeq(lines[i], Under(<<"build", "date">>))
        THEN << Item(sec, "build_date", now, <<>>) >>
        ELSE IF StartsWithSeq(lines[i], <<"#", " ">> \o Under(<<"GENERATED", "ENUMS">>))
        THEN generate_enums(es, t2c)
        ELSE << Item(sec, "line", rstrip(lines[i]), now) >>])

\* insert_code(filename), for the lines of the file, written as section sec
insert_code(lines, sec, es, t2c, now) ==
    Concat([i \in 1..Len(lines) |->
        IF StartsWithSeq(lines[i], Under(<<"build", "date">>))
        THEN << Item(sec, "build_date", now, <<>>) >>
        ELSE IF StartsWithSeq(lines[i], <<"#", " ">> \o Under(<<"GENERATED", "ENUMS">>))
        THEN generate_enums(es, t2c)
        ELSE << Item(sec, "line", rstrip(lines[i]), <<>>) >>])

\* lines 383-388 and 391-393: the methods not wrapped, counted and sorted
Summary(ms, t2c) ==
    LET NotWrapped(m) == m.method \notin WrappedMethods(ms, t2c)
        unwrapped     == SelectSeq(ms, NotWrapped)
        names         == sorted([i \in 1..Len(unwrapped) |-> unwrapped[i].method])
    IN  IF unwrapped = <<>> THEN <<>>
        ELSE << Item("summary", "count", str(Len(unwrapped)), <<>>) >>
             \o [i \in 1..Len(names) |-> Item("summary", "method", names[i], <<>>)]

\* What save() writes up to generate_wrappers' call of parse_override
SaveHeader(es, t2c, now) == insert_code(HeaderLines, "header", es, t2c, now)

\* A file is opened for reading by the function by, when written things
\* have been written to the output
Read(file, by, written) == [file |-> file, by |-> by, written |-> written]

\* Parser.__init__ (lines 83-85): each of the two generators opens the
\* include file and reads it to its end
ParserReads(written) ==
    << Read("include", "parse_typedef", written),
       Read("include", "parse_include", written) >>

\* What save() opens up to the call of parse_override: header.py at line 381,
\* then override.py at line 591, from generate_wrappers, after insert_code
\* has written the header
SaveReadsHeader(es, t2c, now) ==
    << Read("header.py", "insert_code", 0),
       Read("override.py", "parse_override", Len(SaveHeader(es, t2c, now))) >>

\* What save() opens (lines 381, 382 and 389): footer.py is opened when
\* written things, the classes and the free-function declarations among
\* them, have been written
SaveReads(es, t2c, now, written) ==
    SaveReadsHeader(es, t2c, now)
    \o << Read("footer.py", "insert_code", written) >>

\* save() writing the free-function declarations before the classes
save_FunctionsFirst(ms, es, t2c, ov, now) ==
    SaveHeader(es, t2c, now)
    \o Bind(MethodsAfter(ms, t2c, ov), LAMBDA after :
           Concat([i \in 1..Len(after) |-> output_ctypes(after[i], t2c)]))
    \o WrapperItems(ms, t2c, ov)
    \o insert_code(FooterLines, "footer", es, t2c, now)
    \o Summary(ms, t2c)

\* What save() writes (lines 381-393), when parse_override does not fail
save(ms, es, t2c, ov, now) ==
    SaveHeader(es, t2c, now)
    \o WrapperItems(ms, t2c, ov)
    \o Bind(MethodsAfter(ms, t2c, ov), LAMBDA after :
           Concat([i \in 1..Len(after) |-> output_ctypes(after[i], t2c)]))
    \o insert_code(FooterLines, "footer", es, t2c, now)
    \o Summary(ms, t2c)

----------------------------------------------------------------------------
(* Enum sources: the include files the enum claims are checked on *)

\* The members an enum of the model is written from: the member's text, and
\* what C says of it (explicit: it has '= value'; n: that value).
MemberPool ==
    { [sym |-> Under(<<"libvlc", "Playing">>), kind |-> "implicit", n |-> 0,
       vtext |-> <<>>, attr |-> <<"Playing">>,
       text |-> Under(<<"libvlc", "Playing">>)],
      [sym |-> Under(<<"libvlc", "Ended">>), kind |-> "explicit", n |-> 5,
       vtext |-> <<"5">>, attr |-> <<"Ended">>,
       text |-> Under(<<"libvlc", "Ended">>) \o <<" ", "=", " ", "5">>],
      [sym |-> Under(<<"libvlc", "Error">>), kind |-> "explicit", n |-> 16,
       vtext |-> <<"0x", "1", "0">>, attr |-> <<"Error">>,
       text |-> Under(<<"libvlc", "Error">>) \o <<"=", "0x", "1", "0">>],
      [sym |-> Under(<<"pos", "1", "1">>), kind |-> "explicit", n |-> 0 - 1,
       vtext |-> <<"-", "1">>, attr |-> <<"_", "1", "_", "1">>,
       text |-> Under(<<"pos", "1", "1">>) \o <<"=", "-", "1">>],
      [sym |-> <<>>, kind |-> "comment", n |-> 0,
       vtext |-> <<>>, attr |-> <<>>,
       text |-> <<"/*", " ", "c", " ", "*/">>] }

MemberLists == UNION { [1..k -> MemberPool] : k \in 1..MaxMembers }

EnumName == Under(<<"libvlc", "state", "t">>)

EnumHeads == {"typedef_named", "named", "typedef_anonymous", "anonymous"}

EnumDecls ==
    [head : EnumHeads, multiline : BOOLEAN, trailing_comma : BOOLEAN,
     members : MemberLists]

IsNamed(d) == d.head \in {"typedef_named", "named"}

\* 'typedef enum libvlc_state_t', 'enum', ...
HeadText(d) ==
    (IF d.head \in {"typedef_named", "typedef_anonymous"}
     THEN <<"typedef", " ">> ELSE <<>>)
    \o <<"enum">>
    \o (IF IsNamed(d) THEN <<" ">> \o EnumName ELSE <<>>)

\* '} libvlc_state_t;' or '};'
FootText(d) ==
    <<"}">>
    \o (IF d.head \in {"typedef_named", "typedef_anonymous"}
        THEN <<" ">> \o EnumName ELSE <<>>)
    \o <<";">>

MemberTexts(d) == [i \in 1..Len(d.members) |-> d.members[i].text]

\* The definition on one line
OneLine(d) ==
    << HeadText(d) \o <<" ", "{", " ">>
       \o JoinWith(MemberTexts(d), <<",", " ">>)
       \o (IF d.trailing_comma THEN <<",">> ELSE <<>>)
       \o <<" ">> \o FootText(d) \o <<"\n">> >>

\* The definition with one member per line, as the VLC headers write it
ManyLines(d) ==
    << HeadText(d) \o <<"\n">>, <<"{", "\n">> >>
    \o [i \in 1..Len(d.members) |->
          <<" ", " ">> \o d.members[i].text
          \o (IF d.members[i].kind # "comment"
                  /\ (d.trailing_comma
                      \/ \E j \in (i + 1)..Len(d.members) :
                            d.members[j].kind # "comment")
              THEN <<",">> ELSE <<>>)
          \o <<"\n">>]
    \o << FootText(d) \o <<"\n">> >>

EnumFile(d) == IF d.multiline THEN ManyLines(d) ELSE OneLine(d)

\* What C says the members of d are: the comments are no members
RealMembers(d) == SelectSeq(d.members, LAMBDA m : m.kind # "comment")

\* The value C gives the i-th of the members ms
RECURSIVE CValue(_, _)
CValue(ms, i) ==
    IF ms[i].kind = "explicit" THEN ms[i].n
    ELSE IF i = 1 THEN 0
    ELSE CValue(ms, i - 1) + 1

----------------------------------------------------------------------------
(* Prototype sources: the include files the prototype claims are checked on *)

\* The parameters a prototype of the model is written from: the text, and
\* the type and the name C reads in it
ParamPool ==
    { [text |-> Under(<<"libvlc", "instance", "t">>) \o <<" ", "*">>
                \o Under(<<"p", "instance">>),
       typ  |-> Ptr(<<"libvlc", "instance", "t">>),
       name |-> Under(<<"p", "instance">>)],
      [text |-> Under(<<"libvlc", "instance", "t">>) \o <<" ", "*">>,
       typ  |-> Ptr(<<"libvlc", "instance", "t">>),
       name |-> <<>>],
      [text |-> <<"int">>, typ |-> <<"int">>, name |-> <<>>],
      [text |-> <<"const", " ", "char", " ", "*">> \o Under(<<"psz", "name">>),
       typ  |-> <<"char", "*">>,
       name |-> Under(<<"psz", "name">>)] }

VoidParam == [text |-> <<"void">>, typ |-> <<"void">>, name |-> <<>>]

ParamLists ==
    {<<VoidParam>>} \cup UNION { [1..k -> ParamPool] : k \in 1..MaxParams }

\* The return types: the text, and the type C reads in it
ReturnPool ==
    { [text |-> <<"void">>, typ |-> <<"void">>],
      [text |-> <<"const", " ", "char", " ", "*">>, typ |-> <<"char", "*">>] }

ProtoName == Under(<<"libvlc", "get", "version">>)

ProtoDecls ==
    [ret : ReturnPool, params : ParamLists, tags : 0..MaxTags, multiline : BOOLEAN]

\* The name the i-th \param tag of the documentation gives: p_a, p_b, ...
TagName(i) == <<"p", "_", Digits[10 + i]>>

\* The documentation comment of d, with d.tags parameter tags
DocLines(d) ==
    << <<"/**", "\n">>,
       <<" * ", "Get", " ", "the", " ", "version", "\n">> >>
    \o [i \in 1..d.tags |->
          <<" * ", "\\param", " ">> \o TagName(i) \o <<" ", "the", " ", "x", "\n">>]
    \o << <<" * ", "\\return", " ", "the", " ", "version", "\n">>,
          <<" ", "*/", "\n">> >>

ProtoHead(d) == <<"VLC_PUBLIC_API", " ">> \o d.ret.text \o <<" ">> \o ProtoName \o <<"(">>

ProtoOneLine(d) ==
    << ProtoHead(d) \o <<" ">>
       \o JoinWith([i \in 1..Len(d.params) |-> d.params[i].text], <<",", " ">>)
       \o <<" ", ")", ";", "\n">> >>

ProtoManyLines(d) ==
    << ProtoHead(d) \o <<"\n">> >>
    \o [i \in 1..Len(d.params) |->
          <<" ", " ">> \o d.params[i].text
          \o (IF i < Len(d.params) THEN <<",">> ELSE <<" ", ")", ";">>)
          \o <<"\n">>]

ProtoFile(d) == DocLines(d) \o (IF d.multiline THEN ProtoManyLines(d) ELSE ProtoOneLine(d))

\* The documentation of d as written between the comment's delimiters
DocText(d) ==
    Concat([i \in 1..(Len(DocLines(d)) - 2) |-> Tail(DocLines(d)[i + 1])])

VoidOnly(d) == d.params = <<VoidParam>>

HasUnnamed(d) == \E i \in 1..Len(d.params) : d.params[i].name = <<>>

----------------------------------------------------------------------------
(* SpecTypedef: parse_typedef, convert_enum_names and generate_enums applied *)
(* to one enum definition                                                    *)

InitTypedef ==
    /\ decl \in EnumDecls
    /\ src = EnumFile(decl)
    /\ pc = "td_start"
    /\ enums = <<>>
    /\ methods = <<>>
    /\ reported = <<>>
    /\ type2class = Dict(BaseTable)
    /\ error = NoError
    /\ opened = FALSE
    /\ out = <<>>
    /\ clock = 1
    /\ run = 1
    /\ first_out = <<>>
    /\ checks = 0
    /\ io = <<>>
    /\ pos = 0
    /\ td = TypedefStart
    /\ inc = IncludeStart
    /\ result = <<>>

TdParse ==
    /\ pc = "td_start"
    /\ enums' = parse_typedef(src)
    /\ pc' = "td_parsed"
    /\ UNCHANGED <<decl, src, methods, reported, type2class, error, opened, out,
                 clock, run, first_out, checks>>
    /\ UNCHANGED <<io, loopvars>>

TdConvert ==
    /\ pc = "td_parsed"
    /\ type2class' = Update(type2class, convert_enum_names(enums))
    /\ pc' = "td_converted"
    /\ UNCHANGED <<decl, src, enums, methods, reported, error, opened, out,
                 clock, run, first_out, checks>>
    /\ UNCHANGED <<io, loopvars>>

TdGenerate ==
    /\ pc = "td_converted"
    /\ out' = out \o generate_enums(enums, type2class)
    /\ pc' = "td_done"
    /\ UNCHANGED <<decl, src, enums, methods, reported, type2class, error, opened,
                 clock, run, first_out, checks>>
    /\ UNCHANGED <<io, loopvars>>

NextTypedef == TdParse \/ TdConvert \/ TdGenerate

SpecTypedef == InitTypedef /\ [][NextTypedef]_vars

----------------------------------------------------------------------------
(* The enum claims, under SpecTypedef *)

\* The members parse_typedef recovered for the one definition of the source
Recovered == enums[1].values

\* The lines of the _names table generate_enums wrote, in order
NameItems == SelectSeq(out, LAMBDA it : it.sec = "enums" /\ it.kind = "name")

\* The integer a value text denotes
Denotes(v) == IF startswith(v, "0x") THEN int16(v) ELSE int10(v)

\* C1: in every member list parse_typedef parses, a member with an explicit
\* value keeps the value as written, and a member without one gets the value
\* of the member before it plus one, or 0 when it is the first; so a run of
\* members without explicit values increases in steps of 1.
C1_ImplicitCounter ==
    (pc # "td_start" /\ IsNamed(decl)) =>
        /\ Len(enums) = 1
        /\ Len(Recovered) = Len(RealMembers(decl))
        /\ \A i \in 1..Len(Recovered) :
              LET m == RealMembers(decl)[i] IN
              /\ Recovered[i][1] = m.sym
              /\ m.kind = "explicit" => Recovered[i][2] = m.vtext
              /\ m.kind = "implicit" =>
                    /\ Recovered[i][2] = str(CValue(RealMembers(decl), i))
                    /\ Denotes(Recovered[i][2]) =
                          IF i = 1 THEN 0 ELSE Denotes(Recovered[i - 1][2]) + 1

\* C1's case: a parsed list in which a member without a value follows one
\* with a value, and another member without a value follows that
C1_Witness ==
    /\ pc = "td_parsed"
    /\ IsNamed(decl)
    /\ Len(enums) = 1
    /\ \E i \in 2..(Len(RealMembers(decl)) - 1) :
          /\ RealMembers(decl)[i - 1].kind = "explicit"
          /\ RealMembers(decl)[i].kind = "implicit"
          /\ RealMembers(decl)[i + 1].kind = "implicit"

\* C2: an enum definition without a name is recognised and yields exactly one
\* EnumDefinition, with the fallback name and the members C gives it.
C2_AnonymousEnumEmitted ==
    (pc # "td_start" /\ decl.head = "anonymous") =>
        /\ Len(enums) = 1
        /\ enums[1].name = AnonymousName
        /\ Len(Recovered) = Len(RealMembers(decl))
        /\ \A i \in 1..Len(Recovered) :
              /\ Recovered[i][1] = RealMembers(decl)[i].sym
              /\ Denotes(Recovered[i][2]) = CValue(RealMembers(decl), i)

\* C3 as the spec states it: every (symbol, value) pair is written back
\* exactly and in order, a hexadecimal value as its decimal equivalent.
C3_RoundTripExact ==
    (pc = "td_done" /\ IsNamed(decl)) =>
        /\ Len(NameItems) = Len(RealMembers(decl))
        /\ \A i \in 1..Len(NameItems) :
              /\ NameItems[i].y = RealMembers(decl)[i].sym
              /\ NameItems[i].x = str(CValue(RealMembers(decl), i))

\* C3, amended: every member is written back in order with the integer value
\* C gives it; a value written in the source is written back as written (a
\* hexadecimal one in hexadecimal), and the symbol is written as its last
\* '_'-separated part (the last two parts when that is one character long,
\* after a '_' when it starts with a digit).
C3_RoundTripValues ==
    (pc = "td_done" /\ IsNamed(decl)) =>
        /\ Len(NameItems) = Len(RealMembers(decl))
        /\ \A i \in 1..Len(NameItems) :
              LET m == RealMembers(decl)[i] IN
              /\ NameItems[i].y = m.attr
              /\ Denotes(NameItems[i].x) = CValue(RealMembers(decl), i)
              /\ m.kind = "explicit" => NameItems[i].x = m.vtext

\* C3's case: a definition with a hexadecimal member has been written out
C3_Witness ==
    /\ pc = "td_done"
    /\ IsNamed(decl)
    /\ \E i \in 1..Len(NameItems) :
          /\ RealMembers(decl)[i].vtext = <<"0x", "1", "0">>
          /\ NameItems[i].x = <<"0x", "1", "0">>
          /\ i < Len(NameItems)

----------------------------------------------------------------------------
(* Program sources: the include file and the override file of a whole run *)

P(text, typ, name) == [text |-> text, typ |-> typ, name |-> name]

\* The functions an include file of the model declares: the name, the name
\* left when the prefix of its class and of the library are taken off, the
\* return type and the parameters as C reads them, and the documentation
FuncPool ==
    { [name   |-> Under(<<"libvlc", "media", "new">>),
       short  |-> Under(<<"media", "new">>),
       ret    |-> [text |-> Under(<<"libvlc", "media", "t">>) \o <<" ", "*">>,
                   typ  |-> Ptr(<<"libvlc", "media", "t">>)],
       params |-> << P(Under(<<"libvlc", "instance", "t">>) \o <<" ", "*">>
                         \o Under(<<"p", "instance">>),
                       Ptr(<<"libvlc", "instance", "t">>), Under(<<"p", "instance">>)),
                     P(<<"const", " ", "char", " ", "*">> \o Under(<<"psz", "mrl">>),
                       <<"char", "*">>, Under(<<"psz", "mrl">>)) >>,
       doc    |-> << <<"Create", " ", "a", " ", "media", ".">>,
                     <<"\\param", " ">> \o Under(<<"p", "instance">>)
                        \o <<" ", "the", " ", "instance">>,
                     <<"\\param", " ">> \o Under(<<"psz", "mrl">>)
                        \o <<" ", "the", " ", "location">>,
                     <<"\\return", " ", "the", " ", "media">> >>],
      [name   |-> Under(<<"libvlc", "get", "version">>),
       short  |-> Under(<<"get", "version">>),
       ret    |-> [text |-> <<"const", " ", "char", " ", "*">>, typ |-> <<"char", "*">>],
       params |-> << VoidParam >>,
       doc    |-> << <<"Get", " ", "the", " ", "version", ".">> >>],
      [name   |-> Under(<<"libvlc", "set", "exit", "handler">>),
       short  |-> Under(<<"set", "exit", "handler">>),
       ret    |-> [text |-> <<"void">>, typ |-> <<"void">>],
       params |-> << P(Under(<<"libvlc", "instance", "t">>) \o <<" ", "*">>
                         \o Under(<<"p", "instance">>),
                       Ptr(<<"libvlc", "instance", "t">>), Under(<<"p", "instance">>)),
                     P(<<"void", " ", "*", "opaque">>, <<"void", "*">>, <<"opaque">>) >>,
       doc    |-> << <<"Set", " ", "the", " ", "exit", " ", "handler", ".">> >>],
      [name   |-> Under(<<"libvlc", "media", "player", "get", "state">>),
       short  |-> Under(<<"get", "state">>),
       ret    |-> [text |-> EnumName, typ |-> EnumName],
       params |-> << P(Under(<<"libvlc", "media", "player", "t">>) \o <<" ", "*">>
                         \o Under(<<"p", "mi">>),
                       Ptr(<<"libvlc", "media", "player", "t">>), Under(<<"p", "mi">>)) >>,
       doc    |-> << <<"Get", " ", "the", " ", "state", ".">>,
                     <<"\\return", " ", "the", " ", "state">> >>],
      [name   |-> Under(<<"libvlc", "media", "player", "set", "state">>),
       short  |-> Under(<<"set", "state">>),
       ret    |-> [text |-> <<"void">>, typ |-> <<"void">>],
       params |-> << P(Under(<<"libvlc", "media", "player", "t">>) \o <<" ", "*">>
                         \o Under(<<"p", "mi">>),
                       Ptr(<<"libvlc", "media", "player", "t">>), Under(<<"p", "mi">>)),
                     P(EnumName \o <<" ">> \o Under(<<"e", "state">>),
                       EnumName, Under(<<"e", "state">>)) >>,
       doc    |-> << <<"Set", " ", "the", " ", "state", ".">> >>],
      [name   |-> Under(<<"libvlc", "free">>),
       short  |-> <<"free">>,
       ret    |-> [text |-> <<"void">>, typ |-> <<"void">>],
       params |-> << P(<<"void", " ", "*", "ptr">>, <<"void", "*">>, <<"ptr">>) >>,
       doc    |-> << <<"Free", " ", "the", " ", "memory", ".">> >>],
      [name   |-> Under(<<"libvlc", "media", "list", "count">>),
       short  |-> <<"count">>,
       ret    |-> [text |-> <<"int">>, typ |-> <<"int">>],
       params |-> << P(Under(<<"libvlc", "media", "list", "t">>) \o <<" ", "*">>
                         \o Under(<<"p", "ml">>),
                       Ptr(<<"libvlc", "media", "list", "t">>), Under(<<"p", "ml">>)) >>,
       doc    |-> << <<"Get", " ", "the", " ", "count", ".">>,
                     <<"\\param", " ">> \o Under(<<"p", "ml">>)
                        \o <<" ", "the", " ", "list">>,
                     <<"\\return", " ", "the", " ", "count">> >>],
      [name   |-> Under(<<"libvlc", "media", "list", "item", "at", "index">>),
       short  |-> Under(<<"item", "at", "index">>),
       ret    |-> [text |-> Under(<<"libvlc", "media", "t">>) \o <<" ", "*">>,
                   typ  |-> Ptr(<<"libvlc", "media", "t">>)],
       params |-> << P(Under(<<"libvlc", "media", "list", "t">>) \o <<" ", "*">>
                         \o Under(<<"p", "ml">>),
                       Ptr(<<"libvlc", "media", "list", "t">>), Under(<<"p", "ml">>)),
                     P(<<"int", " ">> \o Under(<<"i", "pos">>),
                       <<"int">>, Under(<<"i", "pos">>)) >>,
       doc    |-> << <<"Get", " ", "the", " ", "item", ".">>,
                     <<"\\param", " ">> \o Under(<<"p", "ml">>)
                        \o <<" ", "the", " ", "list">>,
                     <<"\\param", " ">> \o Under(<<"i", "pos">>)
                        \o <<" ", "the", " ", "position">>,
                     <<"\\return", " ", "the", " ", "media">> >>],
      [name   |-> Under(<<"libvlc", "video", "get", "size">>),
       short  |-> Under(<<"video", "get", "size">>),
       ret    |-> [text |-> <<"int">>, typ |-> <<"int">>],
       params |-> << P(Under(<<"libvlc", "media", "player", "t">>) \o <<" ", "*">>
                         \o Under(<<"p", "mi">>),
                       Ptr(<<"libvlc", "media", "player", "t">>), Under(<<"p", "mi">>)),
                     P(<<"unsigned", " ", "num">>, <<"unsigned">>, <<"num">>),
                     P(<<"unsigned", " ", "*", "p", "x">>, <<"unsigned", "*">>,
                       <<"p", "x">>),
                     P(<<"int", " ", "*", "p", "y">>, <<"int", "*">>, <<"p", "y">>) >>,
       doc    |-> << <<"Get", " ", "the", " ", "size", ".">>,
                     <<"\\param", " ">> \o Under(<<"p", "mi">>)
                        \o <<" ", "the", " ", "player">>,
                     <<"\\param", " ", "num", " ", "the", " ", "number">>,
                     <<"\\param", " ", "p", "x", " ", "the", " ", "width", " ", "[OUT]">>,
                     <<"\\param", " ", "p", "y", " ", "the", " ", "height", " ", "[OUT]">>,
                     <<"\\return", " ", "the", " ", "status">> >>] }

\* The lines that declare the function f: its comment and its prototype
FuncLines(f) ==
    << <<"/**", "\n">> >>
    \o [i \in 1..Len(f.doc) |-> <<" * ">> \o f.doc[i] \o <<"\n">>]
    \o << <<" ", "*/", "\n">>,
          <<"VLC_PUBLIC_API", " ">> \o f.ret.text \o <<" ">> \o f.name \o <<"(", " ">>
          \o JoinWith([i \in 1..Len(f.params) |-> f.params[i].text], <<",", " ">>)
          \o <<" ", ")", ";", "\n">> >>

\* The enum an include file of the model may define
StateEnum ==
    [head |-> "typedef_named", multiline |-> TRUE, trailing_comma |-> FALSE,
     members |-> << CHOOSE m \in MemberPool : m.sym = Under(<<"libvlc", "Playing">>),
                    CHOOSE m \in MemberPool : m.sym = Under(<<"libvlc", "Ended">>) >>]

\* A class of an override file: its name, its documentation string (none,
\* closed, unclosed: its closing quotes are missing, single: written with
\* single quotes), and the names of the methods it defines
Section(name, doc, defs) == [name |-> name, doc |-> doc, defs |-> defs]

DocStringLines(doc) ==
    CASE doc = "none"     -> <<>>
      [] doc = "closed"   ->
            << <<" ", " ", "\"\"\"", "Create", " ", "an", " ", "instance", ".", "\n">>,
               <<" ", " ", "\"\"\"", "\n">> >>
      [] doc = "unclosed" ->
            << <<" ", " ", "\"\"\"", "Create", " ", "an", " ", "instance", ".", "\n">> >>
      [] doc = "single"   ->
            << <<" ", " ", "'''", "Create", " ", "an", " ", "instance", ".",
                 "'''", "\n">> >>

DefLines(name) ==
    << <<" ", " ", "def", " ">> \o name \o <<"(", "self", ")", ":", "\n">>,
       <<" ", " ", " ", " ", "pass", "\n">> >>

\* The lines of the class s after its marker line
BodyLines(s) ==
    DocStringLines(s.doc) \o Concat([i \in 1..Len(s.defs) |-> DefLines(s.defs[i])])

MarkerLine(s) == <<"class", " ">> \o s.name \o <<":", "\n">>

PreambleLines == << <<"import", " ", "ctypes", "\n">> >>

\* The override file written from d
OverrideFile(d) ==
    (IF d.preamble THEN PreambleLines ELSE <<>>)
    \o Concat([i \in 1..Len(d.sections) |->
                 <<MarkerLine(d.sections[i])>> \o BodyLines(d.sections[i])])

\* The override files of a whole run: an empty one; one with a class that
\* has a documentation string, its own __new__ and its own media_new; one
\* whose documentation string is not closed; one with its own count
OverridePool ==
    { [preamble |-> FALSE, sections |-> <<>>],
      [preamble |-> FALSE,
       sections |-> << Section(<<"Instance">>, "closed",
                               << <<"__new__">>, Under(<<"media", "new">>) >>) >>],
      [preamble |-> FALSE,
       sections |-> << Section(<<"Instance">>, "unclosed", <<>>) >>],
      [preamble |-> TRUE,
       sections |-> << Section(<<"MediaList">>, "none", << <<"count">> >>) >>] }

\* The sequences of 1..n different elements of S
RECURSIVE Arrangements(_, _)
Arrangements(S, n) ==
    IF n = 0 THEN {<<>>}
    ELSE LET shorter == Arrangements(S, n - 1)
         IN  shorter \cup { Append(s, x) : s \in { t \in shorter : Len(t) = n - 1 },
                                             x \in S }

Distinct(s) == \A i, j \in 1..Len(s) : i # j => s[i] # s[j]

SourceDecls ==
    [enum     : BOOLEAN,
     funcs    : { s \in Arrangements(FuncPool, MaxFuncs) : s # <<>> /\ Distinct(s) },
     override : OverridePool]

SourceFile(d) ==
    (IF d.enum THEN EnumFile(StateEnum) ELSE <<>>)
    \o Concat([i \in 1..Len(d.funcs) |-> FuncLines(d.funcs[i])])

\* What C says of the sources d: the type is known to the generator
Mapped(d, typ) ==
    \/ \E i \in 1..Len(BaseTable) : BaseTable[i][1] = typ
    \/ d.enum /\ typ = EnumName

\* The parameters of f as C reads them: none for a void list
CParams(f) == IF f.params = <<VoidParam>> THEN <<>> ELSE f.params

----------------------------------------------------------------------------
(* Spec: the program run on one include file, twice *)

Init ==
    /\ decl \in SourceDecls
    /\ src = SourceFile(decl)
    /\ pc = "start"
    /\ enums = <<>>
    /\ methods = <<>>
    /\ reported = <<>>
    /\ type2class = Dict(BaseTable)
    /\ error = NoError
    /\ opened = FALSE
    /\ out = <<>>
    /\ clock = 1
    /\ run = 1
    /\ first_out = <<>>
    /\ checks = 0
    /\ io = <<>>
    /\ pos = 0
    /\ td = TypedefStart
    /\ inc = IncludeStart
    /\ result = <<>>

\* p=Parser(list_of_includes)
Parse ==
    /\ pc = "start"
    /\ td' = TypedefLoop(TypedefStart, src)
    /\ enums' = td'.res
    /\ inc' = IncludeLoop(IncludeStart, src)
    /\ methods' = inc'.res
    /\ reported' = inc'.printed
    /\ io' = io \o ParserReads(Len(out))
    /\ pc' = "parsed"
    /\ UNCHANGED <<decl, src, type2class, error, opened, out,
                   clock, run, first_out, checks, pos, result>>

\* PythonGenerator.__init__ with check_types called before the enums'
\* names are in type2class
Constructed_CheckFirst(t2c, es, ms) ==
    [type2class |-> Update(t2c, convert_enum_names(es)),
     error      |-> check_types(ms, t2c)]

\* PythonGenerator.__init__ (lines 366-367), when convert_enum_names does
\* not fail: the new type2class, and the exception of check_types if any
Constructed(t2c, es, ms) ==
    [type2class |-> Update(t2c, convert_enum_names(es)),
     error      |-> check_types(ms, Update(t2c, convert_enum_names(es)))]

\* g=PythonGenerator(p)
Construct ==
    /\ pc = "parsed"
    /\ IF ConvertFails(enums)
       THEN /\ error' = [NoError EXCEPT !.kind = "IndexError"]
            /\ pc' = "failed"
            /\ UNCHANGED <<type2class, checks>>
       ELSE /\ type2class' = Constructed(type2class, enums, methods).type2class
            /\ error' = Constructed(type2class, enums, methods).error
            /\ checks' = checks + 1
            /\ pc' = IF error' = NoError THEN "constructed" ELSE "failed"
    /\ UNCHANGED <<decl, src, enums, methods, reported, opened, out,
                   clock, run, first_out>>
    /\ UNCHANGED <<io, loopvars>>

\* g.save(output), to a file
Save ==
    /\ pc = "constructed"
    /\ opened' = TRUE
    /\ IF OverrideFails(OverrideFile(decl.override))
       THEN /\ out' = out \o SaveHeader(enums, type2class, clock)
            /\ io' = io \o SaveReadsHeader(enums, type2class, clock)
            /\ error' = [NoError EXCEPT !.kind = "ValueError"]
            /\ pc' = "failed"
            /\ UNCHANGED methods
       ELSE /\ out' = out \o save(methods, enums, type2class,
                                  parse_override(OverrideFile(decl.override)), clock)
            /\ methods' = MethodsAfter(methods, type2class,
                                       parse_override(OverrideFile(decl.override)))
            /\ io' = io \o SaveReads(enums, type2class, clock,
                                     Len(out') - Len(FooterLines)
                                     - Len(Summary(methods, type2class)))
            /\ pc' = "saved"
            /\ UNCHANGED error
    /\ UNCHANGED <<decl, src, enums, reported, type2class,
                   clock, run, first_out, checks>>
    /\ UNCHANGED loopvars

\* The program is run again on the same sources, at once or a second later
Again ==
    /\ pc \in {"saved", "failed"}
    /\ run = 1
    /\ run' = 2
    /\ first_out' = out
    /\ clock' \in {clock, clock + 1}
    /\ pc' = "start"
    /\ enums' = <<>>
    /\ methods' = <<>>
    /\ reported' = <<>>
    /\ type2class' = Dict(BaseTable)
    /\ error' = NoError
    /\ opened' = FALSE
    /\ out' = <<>>
    /\ checks' = 0
    /\ io' = <<>>
    /\ td' = TypedefStart
    /\ inc' = IncludeStart
    /\ UNCHANGED <<decl, src, pos, result>>

Next == Parse \/ Construct \/ Save \/ Again

Spec == Init /\ [][Next]_vars

----------------------------------------------------------------------------
(* The generator claims, under Spec *)

\* The parameters of the sources that C gives a type the generator does not
\* know, as pairs <<index of the function, index of the parameter>>
UnmappedParams ==
    { ij \in (1..Len(decl.funcs)) \X (1..4) :
        /\ ij[2] <= Len(CParams(decl.funcs[ij[1]]))
        /\ ~Mapped(decl, CParams(decl.funcs[ij[1]])[ij[2]].typ) }

\* The first of them in the order of the file
FirstUnmapped ==
    CHOOSE ij \in UnmappedParams :
        \A xy \in UnmappedParams :
            ij[1] < xy[1] \/ (ij[1] = xy[1] /\ ij[2] <= xy[2])

\* The things of the output that bear the name of a function
Named(i) ==
    out[i].kind \in {"method", "function", "__len__", "__getitem__", "__iter__"}
    \/ (out[i].sec = "summary" /\ out[i].kind = "method")

\* C6: once the file is written, every declaration that is not blacklisted
\* has a return type and parameter types the generator knows, and every type
\* written in a free-function declaration is a value of the type mapping.
C6_TypesResolved ==
    (pc = "saved") =>
        /\ \A i \in 1..Len(decl.funcs) :
              decl.funcs[i].name \notin blacklist =>
                  /\ Mapped(decl, decl.funcs[i].ret.typ)
                  /\ \A j \in 1..Len(CParams(decl.funcs[i])) :
                        Mapped(decl, CParams(decl.funcs[i])[j].typ)
        /\ \A i \in 1..Len(out) :
              (out[i].sec = "ctypes" /\ out[i].kind = "function") =>
                  \A j \in 1..Len(out[i].y.args) :
                      \E k \in DOMAIN type2class : type2class[k] = out[i].y.args[j]

\* C7: check_types is called once, by the constructor, with the names of
\* the parsed enums in the mapping, before the output is opened or written;
\* it raises exactly when a parameter has a type without conversion, the
\* exception names the type, the function and the parameter of the first
\* such parameter, and then nothing is opened or written.
C7_CheckAtConstruction ==
    /\ pc \in {"start", "parsed"} => (checks = 0 /\ ~opened /\ out = <<>>)
    /\ pc \in {"constructed", "saved"} => (checks = 1 /\ error = NoError)
    /\ (opened \/ out # <<>>) => checks = 1
    /\ checks = 1 =>
          /\ \A i \in 1..Len(enums) : enums[i].name \in DOMAIN type2class
          /\ (error.kind = "No conversion") <=> (UnmappedParams # {})
    /\ error.kind = "No conversion" =>
          /\ pc = "failed" /\ ~opened /\ out = <<>>
          /\ error.typ \notin DOMAIN type2class
          /\ error.typ = CParams(decl.funcs[FirstUnmapped[1]])[FirstUnmapped[2]].typ
          /\ error.met = decl.funcs[FirstUnmapped[1]].name
          /\ error.name = CParams(decl.funcs[FirstUnmapped[1]])[FirstUnmapped[2]].name

\* C7's case: a parameter of an enum type the sources do not define has
\* stopped the construction
C7_Witness ==
    /\ pc = "failed"
    /\ error.kind = "No conversion"
    /\ error.typ = EnumName
    /\ ~decl.enum
    /\ Len(decl.funcs) = 2

\* C8: once the file is written, no blacklisted name is the name of a
\* wrapper method, of a free-function declaration, or of a line of the
\* summary of the methods not wrapped.
C8_BlacklistedNowhere ==
    (pc = "saved") => \A i \in 1..Len(out) : Named(i) => out[i].x \notin blacklist

\* The place of each section in the order the specification states, and in
\* the order save() writes them; the enum block is taken with the preamble
\* that holds it
ClaimedRank(sec) ==
    CASE sec = "header" -> 1 [] sec = "enums" -> 1 [] sec = "ctypes" -> 2
      [] sec = "wrappers" -> 3 [] sec = "footer" -> 4 [] sec = "summary" -> 5

ActualRank(sec) ==
    CASE sec = "header" -> 1 [] sec = "enums" -> 1 [] sec = "wrappers" -> 2
      [] sec = "ctypes" -> 3 [] sec = "footer" -> 4 [] sec = "summary" -> 5

Masked(o) ==
    [i \in 1..Len(o) |-> IF o[i].kind = "build_date" THEN [o[i] EXCEPT !.x = 0] ELSE o[i]]

----------------------------------------------------------------------------
(* SpecInclude: parse_include applied to one documented prototype *)

InitInclude ==
    /\ decl \in ProtoDecls
    /\ src = ProtoFile(decl)
    /\ pc = "inc_start"
    /\ enums = <<>>
    /\ methods = <<>>
    /\ reported = <<>>
    /\ type2class = Dict(BaseTable)
    /\ error = NoError
    /\ opened = FALSE
    /\ out = <<>>
    /\ clock = 1
    /\ run = 1
    /\ first_out = <<>>
    /\ checks = 0
    /\ io = <<>>
    /\ pos = 0
    /\ td = TypedefStart
    /\ inc = IncludeStart
    /\ result = <<>>

IncParse ==
    /\ pc = "inc_start"
    /\ methods' = parse_include(src)
    /\ reported' = parse_include_printed(src)
    /\ pc' = "inc_parsed"
    /\ UNCHANGED <<decl, src, enums, type2class, error, opened, out,
                 clock, run, first_out, checks>>
    /\ UNCHANGED <<io, loopvars>>

NextInclude == IncParse

SpecInclude == InitInclude /\ [][NextInclude]_vars

----------------------------------------------------------------------------
(* The prototype claims, under SpecInclude *)

\* C4: a tagged prototype whose parameter list is the single void marker
\* yields a FunctionDeclaration with an empty parameter sequence.
C4_VoidOnlyIsEmpty ==
    (pc = "inc_parsed" /\ VoidOnly(decl)) =>
        /\ Len(methods) = 1
        /\ methods[1].method = ProtoName
        /\ methods[1].rtype = decl.ret.typ
        /\ methods[1].params = <<>>
        /\ methods[1].comment = DocText(decl)

\* C4's case: a void-only prototype has been parsed and yielded
C4_Witness ==
    /\ pc = "inc_parsed"
    /\ VoidOnly(decl)
    /\ decl.multiline
    /\ Len(methods) = 1

\* C5: a prototype with n parameters of which one has no name, and k
\* documentation tags, is yielded with n names: the i-th tag for i < k, and
\* when k < n the placeholder param<i>, counted from 0, for i >= k, the defect
\* being reported once; no name of a yielded declaration is empty.
C5_RecoveredNames ==
    (pc = "inc_parsed") =>
        /\ Len(methods) = 1
        /\ \A i \in 1..Len(methods[1].params) : methods[1].params[i][2] # <<>>
        /\ ~VoidOnly(decl) =>
              /\ Len(methods[1].params) = Len(decl.params)
              /\ \A i \in 1..Len(decl.params) :
                    /\ methods[1].params[i][1] = decl.params[i].typ
                    /\ methods[1].params[i][2] =
                          IF ~HasUnnamed(decl) THEN decl.params[i].name
                          ELSE IF i <= decl.tags THEN TagName(i)
                          ELSE <<"param", Digits[i]>>
        /\ IF HasUnnamed(decl) /\ ~VoidOnly(decl) /\ decl.tags < Len(decl.params)
           THEN /\ Len(reported) = 1
                /\ reported[1].method = ProtoName
                /\ reported[1].comment =
                      [j \in 1..Len(DocText(decl)) |->
                         IF DocText(decl)[j] = "\n" THEN " " ELSE DocText(decl)[j]]
           ELSE reported = <<>>

\* C5's case: some but not all of the names come from the documentation
C5_Witness ==
    /\ pc = "inc_parsed"
    /\ HasUnnamed(decl)
    /\ decl.tags > 0
    /\ decl.tags < Len(decl.params)
    /\ Len(methods) = 1
    /\ Len(reported) = 1

----------------------------------------------------------------------------
(* The wrapper claims, under Spec *)

\* The functions of the model that follow the two naming conventions
CountFunc == Under(<<"libvlc", "media", "list", "count">>)

IndexFunc == Under(<<"libvlc", "media", "list", "item", "at", "index">>)

\* The function named n is declared by the sources
Declared(n) == \E k \in 1..Len(decl.funcs) : decl.funcs[k].name = n

\* What the type table says of f: the class its first parameter stands for,
\* or <<>> when f has no parameter or its first one is no object
ClassOf(f) ==
    IF /\ CParams(f) # <<>>
       /\ \E i \in 1..Len(BaseTable) :
              /\ BaseTable[i][1] = CParams(f)[1].typ
              /\ BaseTable[i][2] \in defined_classes
    THEN BaseTable[CHOOSE i \in 1..Len(BaseTable) :
                      BaseTable[i][1] = CParams(f)[1].typ][2]
    ELSE <<>>

Candidate(f) == ClassOf(f) # <<>>

\* The names the override file of the sources defines in the class cl
Overrides(cl) ==
    UNION { { decl.override.sections[k].defs[i] :
                i \in 1..Len(decl.override.sections[k].defs) } :
            k \in { k \in 1..Len(decl.override.sections) :
                      decl.override.sections[k].name = cl } }

\* The override file defines the method of f in the class of f
Suppressed(f) == Candidate(f) /\ f.short \in Overrides(ClassOf(f))

\* The places of the output where the thing of kind k for the function n is
Places(k, n) ==
    { i \in 1..Len(out) : out[i].sec = "wrappers" /\ out[i].kind = k /\ out[i].x = n }

\* The i-th thing of the output is the capability k of the method before it
Capability(i, k, m) ==
    /\ i <= Len(out)
    /\ out[i].sec = "wrappers"
    /\ out[i].kind = k
    /\ out[i].x = out[m].x
    /\ out[i].y = out[m].y.class

\* The i-th thing of the output is a method of a wrapper class
IsMethod(i) == out[i].sec = "wrappers" /\ out[i].kind = "method"

\* C11: in the written file, a generated method whose short name is 'count'
\* is followed by a __len__ that calls its function, and a generated method
\* whose short name ends in 'item_at_index' by a __getitem__ and an __iter__
\* that call its function; the __iter__ is there whether or not the class
\* has a 'count'; no __len__, __getitem__ or __iter__ is written otherwise.
C11_Capabilities ==
    (pc = "saved") =>
        /\ \A i \in 1..Len(out) :
              /\ (IsMethod(i) /\ out[i].y.name = <<"count">>) =>
                    Capability(i + 1, "__len__", i)
              /\ (IsMethod(i)
                     /\ EndsWithSeq(out[i].y.name, Under(<<"item", "at", "index">>))) =>
                    /\ Capability(i + 1, "__getitem__", i)
                    /\ Capability(i + 2, "__iter__", i)
              /\ out[i].kind = "__len__" =>
                    /\ IsMethod(i - 1)
                    /\ out[i - 1].y.name = <<"count">>
              /\ out[i].kind = "__getitem__" =>
                    /\ IsMethod(i - 1)
                    /\ EndsWithSeq(out[i - 1].y.name, Under(<<"item", "at", "index">>))
              /\ out[i].kind = "__iter__" => out[i - 1].kind = "__getitem__"
        /\ (Declared(CountFunc) /\ <<"count">> \notin Overrides(<<"MediaList">>)) =>
              /\ Cardinality(Places("method", CountFunc)) = 1
              /\ Cardinality(Places("__len__", CountFunc)) = 1
              /\ \A i \in Places("method", CountFunc) :
                    out[i].y.name = <<"count">> /\ out[i].y.class = <<"MediaList">>
        /\ Declared(IndexFunc) =>
              /\ Cardinality(Places("method", IndexFunc)) = 1
              /\ Cardinality(Places("__getitem__", IndexFunc)) = 1
              /\ Cardinality(Places("__iter__", IndexFunc)) = 1
              /\ \A i \in Places("method", IndexFunc) :
                    /\ out[i].y.name = Under(<<"item", "at", "index">>)
                    /\ out[i].y.class = <<"MediaList">>

\* C11's case: a class has been written with an __iter__ and without any
\* 'count' method or __len__
C11_Witness ==
    /\ pc = "saved"
    /\ Places("__iter__", IndexFunc) # {}
    /\ ~Declared(CountFunc)
    /\ \A i \in 1..Len(out) : out[i].kind # "__len__"

\* C12: every include file and the override file are read to their end
\* before anything is written: no such file is opened for reading once the
\* output holds something.
C12_InputsReadFirst ==
    \A i \in 1..Len(io) :
        io[i].file \in {"include", "override.py"} => io[i].written = 0

\* The place of the function named n in the include file
DeclIndex(n) == CHOOSE k \in 1..Len(decl.funcs) : decl.funcs[k].name = n

\* The classes of the model in the order of their names
ClassOrder == << <<"Instance">>, <<"MediaList">>, <<"MediaPlayer">> >>

ClassRank(c) == CHOOSE i \in 1..Len(ClassOrder) : ClassOrder[i] = c

\* The places of the output where a class opens
ClassPlaces == { i \in 1..Len(out) : out[i].sec = "wrappers" /\ out[i].kind = "class" }

\* The class that was opened last before the place i
Enclosing(i) ==
    out[CHOOSE c \in ClassPlaces : c <= i /\ \A d \in ClassPlaces : d <= i => d <= c].x

\* The classes are written once each, in the order of their names, for the
\* types of the first parameters of the functions; every method is written
\* in the class of its first parameter, after the methods of that class that
\* are declared before it
GroupedInOrder ==
    /\ \A c \in defined_classes :
          Cardinality({ i \in ClassPlaces : out[i].x = c }) =
              IF \E k \in 1..Len(decl.funcs) : ClassOf(decl.funcs[k]) = c THEN 1 ELSE 0
    /\ \A i, j \in ClassPlaces : i < j => ClassRank(out[i].x) < ClassRank(out[j].x)
    /\ \A i \in 1..Len(out) :
          IsMethod(i) =>
              /\ \E c \in ClassPlaces : c < i
              /\ Enclosing(i) = out[i].y.class
              /\ out[i].y.class = ClassOf(decl.funcs[DeclIndex(out[i].x)])
    /\ \A i, j \in 1..Len(out) :
          (i < j /\ IsMethod(i) /\ IsMethod(j) /\ out[i].y.class = out[j].y.class) =>
              DeclIndex(out[i].x) < DeclIndex(out[j].x)

\* C13 as stated: a function is written as a method of a wrapper class if
\* and only if it has a parameter and its first parameter maps to one of the
\* defined classes; the classes are written once each in ascending order of
\* their names, the methods of a class in the order of their declarations.
C13_PlacedIffCandidate ==
    (pc = "saved") =>
        /\ \A k \in 1..Len(decl.funcs) :
              (Places("method", decl.funcs[k].name) # {}) <=> Candidate(decl.funcs[k])
        /\ GroupedInOrder

\* C13, amended: a function is grouped under a wrapper class if and only if
\* it has a parameter and its first parameter maps to one of the defined
\* classes; it is written as a method of that class, once, unless it is
\* blacklisted or the override code of the class defines its short name; a
\* class is written once when it has a grouped function, also when none of
\* them is written; classes are in ascending order of their names, the
\* methods of a class in the order of their declarations.
C13_Grouping ==
    (pc = "saved") =>
        /\ \A k \in 1..Len(decl.funcs) :
              Cardinality(Places("method", decl.funcs[k].name)) =
                  IF /\ Candidate(decl.funcs[k])
                     /\ decl.funcs[k].name \notin blacklist
                     /\ ~Suppressed(decl.funcs[k])
                  THEN 1 ELSE 0
        /\ GroupedInOrder

\* C13's case: two classes have been written, the class of the function
\* declared second before the class of the function declared first
C13_Witness ==
    /\ pc = "saved"
    /\ Cardinality(ClassPlaces) = 2
    /\ \E i, j \in 1..Len(out) :
          /\ i < j /\ IsMethod(i) /\ IsMethod(j)
          /\ DeclIndex(out[i].x) > DeclIndex(out[j].x)

----------------------------------------------------------------------------
(* Line sources: the include files the claims on the line loops are checked *)
(* on.  Each holds a documented first declaration and an undocumented       *)
(* second one.                                                              *)

\* How the file is written around its first declaration
Scenarios ==
    {"plain", "cont_comment", "term_adjacent", "term_spaced", "unterminated",
     "block_inside", "simple_multi", "simple_one", "simple_inside"}

\* The scenarios that need the first declaration on several lines
MultiOnly ==
    {"cont_comment", "term_adjacent", "term_spaced", "unterminated", "simple_inside"}

LineDecls ==
    { d \in [kind : {"enum", "proto"}, kind2 : {"enum", "proto", "callback"},
             multi : BOOLEAN, scen : Scenarios] :
        /\ d.scen \in MultiOnly => d.multi
        /\ d.kind2 = "callback" => d.scen = "unterminated" }

FirstFunc == CHOOSE f \in FuncPool : f.name = Under(<<"libvlc", "media", "new">>)

SecondFunc == CHOOSE f \in FuncPool : f.name = Under(<<"libvlc", "free">>)

\* A member without a value
Implicit(sym) ==
    [sym |-> sym, kind |-> "implicit", n |-> 0, vtext |-> <<>>,
     attr |-> <<>>, text |-> sym]

\* The enum the first declaration defines: no member has a value
LineEnum ==
    [head |-> "typedef_named", multiline |-> TRUE, trailing_comma |-> FALSE,
     members |-> << Implicit(Under(<<"libvlc", "Playing">>)),
                    Implicit(Under(<<"libvlc", "Paused">>)) >>]

SecondEnumName == Under(<<"libvlc", "x", "t">>)

\* '/**', ' * The state', ' */'
StateDoc ==
    << <<"/**", "\n">>, <<" * ", "The", " ", "state", "\n">>, <<" ", "*/", "\n">> >>

InlineComment == <<"/*", " ", "c", " ", "*/">>

\* 'VLC_PUBLIC_API libvlc_media_t * libvlc_media_new('
ProtoStart(f) == <<"VLC_PUBLIC_API", " ">> \o f.ret.text \o <<" ">> \o f.name \o <<"(">>

\* The lines of the first declaration before its terminator line, when it
\* is written on several lines
FirstBody(d) ==
    IF d.kind = "enum"
    THEN << HeadText(LineEnum), <<"{">>,
            <<" ", " ">> \o LineEnum.members[1].text \o <<",">>,
            <<" ", " ">> \o LineEnum.members[2].text >>
    ELSE << ProtoStart(FirstFunc),
            <<" ", " ">> \o FirstFunc.params[1].text \o <<",">> >>

\* Its terminator line
FirstEnd(d) ==
    IF d.kind = "enum" THEN FootText(LineEnum)
    ELSE <<" ", " ">> \o FirstFunc.params[2].text \o <<" ", ")", ";">>

\* The line of FirstBody that ends with the first comma
CommaLine(d) == IF d.kind = "enum" THEN 3 ELSE 2

\* The first declaration on several lines, as the scenario writes it
FirstMany(d) ==
    Concat([i \in 1..Len(FirstBody(d)) |->
              << FirstBody(d)[i]
                 \o (IF d.scen = "cont_comment" /\ i = CommaLine(d)
                     THEN <<" ">> \o InlineComment ELSE <<>>)
                 \o <<"\n">> >>
              \o (IF d.scen = "simple_inside" /\ i = CommaLine(d)
                  THEN << InlineComment \o <<"\n">> >> ELSE <<>>)])
    \o (IF d.scen = "unterminated" THEN <<>>
        ELSE << FirstEnd(d)
                \o (CASE d.scen = "term_adjacent" -> InlineComment
                      [] d.scen = "term_spaced"   -> <<" ">> \o InlineComment
                      [] OTHER                    -> <<>>)
                \o <<"\n">> >>)

\* The first declaration on one line
FirstOne(d) ==
    IF d.kind = "enum" THEN OneLine(LineEnum)
    ELSE << FuncLines(FirstFunc)[Len(FuncLines(FirstFunc))] >>

FirstLines(d) == IF d.multi THEN FirstMany(d) ELSE FirstOne(d)

\* The second declaration: on one line, or, in the unterminated scenario,
\* its first two lines only
SecondLines(d) ==
    IF d.scen = "unterminated"
    THEN CASE d.kind2 = "enum" ->
                << <<"enum", " ">> \o SecondEnumName \o <<"\n">>,
                   <<"{", " ", "Q", "\n">> >>
           [] d.kind2 = "proto" ->
                << ProtoStart(SecondFunc) \o <<"\n">>,
                   <<" ", " ">> \o SecondFunc.params[1].text \o <<"\n">> >>
           [] d.kind2 = "callback" ->
                << <<"VLC_PUBLIC_API", " ", "void", " ">>
                   \o Under(<<"libvlc", "attach">>)
                   \o <<"(", " ", "void", " ", "(", "*", "cb", ")", " ",
                        "(", "void", " ", "*", ")", ",", "\n">>,
                   <<" ", " ", "void", " ", "*", "opaque", "\n">> >>
    ELSE IF d.kind2 = "enum"
    THEN << <<"enum", " ">> \o SecondEnumName
            \o <<" ", "{", " ", "Q", " ", "}", ";", "\n">> >>
    ELSE << FuncLines(SecondFunc)[Len(FuncLines(SecondFunc))] >>

\* The lines s written inside a documentation comment
Starred(s) == [i \in 1..Len(s) |-> <<" * ">> \o s[i]]

\* The include file written from d
LineFile(d) ==
    CASE d.scen = "block_inside" ->
            SubSeq(StateDoc, 1, 2) \o Starred(FirstLines(d) \o SecondLines(d))
      [] d.scen = "simple_multi" ->
            << <<"/*", " ", "old", "\n">> >> \o FirstLines(d)
            \o << <<"*/", "\n">> >> \o SecondLines(d)
      [] d.scen = "simple_one" ->
            << <<"/*", " ", "old", " ", "*/", "\n">> >>
            \o StateDoc \o FirstLines(d) \o SecondLines(d)
      [] OTHER ->
            StateDoc \o FirstLines(d) \o SecondLines(d)

\* What C says of the declarations: the unit of an enum, of a function
EnumUnit(name, ms, doc) ==
    [typ     |-> <<"enum">>,
     name    |-> name,
     values  |-> [i \in 1..Len(ms) |-> <<ms[i].sym, str(CValue(ms, i))>>],
     comment |-> doc]

FuncUnit(f, doc) ==
    [rtype   |-> f.ret.typ,
     method  |-> f.name,
     params  |-> [i \in 1..Len(CParams(f)) |->
                    <<CParams(f)[i].typ, CParams(f)[i].name>>],
     comment |-> doc]

\* The units of a file whose first declaration carries the documentation
\* first (FALSE: the first declaration is not part of the file)
EnumUnits(d, first) ==
    (IF first /\ d.kind = "enum"
     THEN << EnumUnit(EnumName, RealMembers(LineEnum),
                      <<"The", " ", "state", ".">>) >>
     ELSE <<>>)
    \o (IF d.kind2 = "enum"
        THEN << EnumUnit(SecondEnumName, <<Implicit(<<"Q">>)>>, <<>>) >> ELSE <<>>)

FuncUnits(d, first) ==
    (IF first /\ d.kind = "proto"
     THEN << FuncUnit(FirstFunc, <<"The", " ", "state", "\n">>) >>
     ELSE <<>>)
    \o (IF d.kind2 = "proto" THEN << FuncUnit(SecondFunc, <<>>) >> ELSE <<>>)

----------------------------------------------------------------------------
(* SpecLines: Parser.__init__ on one include file, line by line *)

InitLines ==
    /\ decl \in LineDecls
    /\ src = LineFile(decl)
    /\ pc = "ln_typedef"
    /\ enums = <<>>
    /\ methods = <<>>
    /\ reported = <<>>
    /\ type2class = Dict(BaseTable)
    /\ error = NoError
    /\ opened = FALSE
    /\ out = <<>>
    /\ clock = 1
    /\ run = 1
    /\ first_out = <<>>
    /\ checks = 0
    /\ io = <<>>
    /\ pos = 0
    /\ td = TypedefStart
    /\ inc = IncludeStart
    /\ result = <<>>

\* One iteration of 'for l in f' in parse_typedef; self.enums.extend takes
\* what it yields
LnTypedefLine ==
    /\ pc = "ln_typedef"
    /\ pos < Len(src)
    /\ td' = TypedefLine(td, src[pos + 1])
    /\ enums' = td'.res
    /\ pos' = pos + 1
    /\ UNCHANGED <<pc, decl, src, methods, reported, type2class, error, opened,
                   out, clock, run, first_out, checks, io, inc, result>>

\* The file is exhausted: f.close(), and parse_include opens it again
LnTypedefEnd ==
    /\ pc = "ln_typedef"
    /\ pos = Len(src)
    /\ pc' = "ln_include"
    /\ pos' = 0
    /\ UNCHANGED <<decl, src, enums, methods, reported, type2class, error,
                   opened, out, clock, run, first_out, checks, io, td, inc, result>>

\* One iteration of 'for l in f' in parse_include; self.methods.extend
\* takes what it yields
LnIncludeLine ==
    /\ pc = "ln_include"
    /\ pos < Len(src)
    /\ inc' = IncludeLine(inc, src[pos + 1])
    /\ methods' = inc'.res
    /\ reported' = inc'.printed
    /\ pos' = pos + 1
    /\ UNCHANGED <<pc, decl, src, enums, type2class, error, opened,
                   out, clock, run, first_out, checks, io, td, result>>

\* The file is exhausted: f.close()
LnIncludeEnd ==
    /\ pc = "ln_include"
    /\ pos = Len(src)
    /\ pc' = "ln_done"
    /\ UNCHANGED <<decl, src, enums, methods, reported, type2class, error,
                   opened, out, clock, run, first_out, checks, io, loopvars>>

NextLines == LnTypedefLine \/ LnTypedefEnd \/ LnIncludeLine \/ LnIncludeEnd

SpecLines == InitLines /\ [][NextLines]_vars

----------------------------------------------------------------------------
(* The claims on the line loops, under SpecLines *)

\* The units without their documentation
Bare(units) == [i \in 1..Len(units) |-> [units[i] EXCEPT !.comment = <<>>]]

\* C14: a declaration written on several lines, with or without a trailing
\* comment on its continuation lines or after its terminator, is yielded once
\* as C reads it, with the documentation comment that precedes it, and the
\* undocumented declaration that follows it gets empty documentation.
C14_Accumulation ==
    (/\ pc = "ln_done"
     /\ decl.multi
     /\ decl.scen \in {"plain", "cont_comment", "term_adjacent", "term_spaced"})
    => /\ enums = EnumUnits(decl, TRUE)
       /\ methods = FuncUnits(decl, TRUE)

\* C15: when the terminator of an accumulation or of a documentation comment
\* never comes, nothing is yielded from there to the end of the file, also
\* when the start line of another declaration comes inside it.
C15_Unterminated ==
    decl.scen \in {"unterminated", "block_inside"}
    => enums = <<>> /\ methods = <<>>

\* C16: a simple comment closed on its line leaves the loop's state
\* as it is; one left open swallows the lines up to its closing line, which
\* neither start an accumulation nor yield a unit.
C16_SimpleComments ==
    (pc = "ln_done" /\ decl.scen \in {"simple_multi", "simple_one", "simple_inside"})
    => /\ Bare(enums) = Bare(EnumUnits(decl, decl.scen # "simple_multi"))
       /\ Bare(methods) = Bare(FuncUnits(decl, decl.scen # "simple_multi"))

----------------------------------------------------------------------------
(* The direction claim, under Spec *)

ExceptionType == Ptr(<<"libvlc", "exception", "t">>)

\* The types paramFlag3 may be given: the keys of type2class, and the
\* exception pointer of its own table
GivenTypes == DOMAIN type2class \cup {ExceptionType}

\* The types that are not Flag.In
DirectedTypes == { t \in GivenTypes : paramFlag3(t) # <<FlagIn>> }

\* What the table of lines 71-73 says of the type typ
Direction(typ) ==
    IF typ \in {<<"int", "*">>, <<"unsigned", "*">>} THEN FlagOut
    ELSE IF typ = ExceptionType THEN FlagInOut
    ELSE FlagIn

\* The parameters of f after the first whose direction is not Out, by name
Forwarded(f) ==
    LET rest   == Tail(CParams(f))
        Kept(p) == Direction(p.typ) # FlagOut
        kept   == SelectSeq(rest, Kept)
    IN  [i \in 1..Len(kept) |-> kept[i].name]

\* The places of the output where the declaration of the function n is
Declarations(n) ==
    { i \in 1..Len(out) :
        out[i].sec = "ctypes" /\ out[i].kind = "function" /\ out[i].x = n }

\* In the written file, each generated method has the arguments 'self' and
\* then the parameters after the first that are not Out, in the order of the
\* declaration; each function that is not blacklisted is declared once with
\* the types and the flags of all its parameters
Forwarding ==
    (pc = "saved") =>
        \A k \in 1..Len(decl.funcs) :
            /\ (Candidate(decl.funcs[k]) /\ ~Suppressed(decl.funcs[k])
                    /\ decl.funcs[k].name \notin blacklist)
                => Cardinality(Places("method", decl.funcs[k].name)) = 1
            /\ \A i \in Places("method", decl.funcs[k].name) :
                  out[i].y.args = << <<"self">> >> \o Forwarded(decl.funcs[k])
            /\ decl.funcs[k].name \notin blacklist
                => Cardinality(Declarations(decl.funcs[k].name)) = 1
            /\ \A i \in Declarations(decl.funcs[k].name) :
                  /\ Len(out[i].y.args) = 1 + Len(CParams(decl.funcs[k]))
                  /\ Len(out[i].y.flags) = Len(CParams(decl.funcs[k]))
                  /\ \A j \in 1..Len(CParams(decl.funcs[k])) :
                        /\ out[i].y.args[j + 1]
                              = type2class[CParams(decl.funcs[k])[j].typ]
                        /\ out[i].y.flags[j]
                              = <<Direction(CParams(decl.funcs[k])[j].typ)>>

\* C17 as stated: paramFlag3 returns a 1-tuple, exactly two types are Out or
\* InOut and every other type is In; the wrapper's arguments are 'self' and
\* the remaining parameters that are not Out, and the declaration of the
\* function lists the types and flags of all the parameters.
C17_TwoDirectedTypes ==
    /\ \A t \in GivenTypes : Len(paramFlag3(t)) = 1
    /\ Cardinality(DirectedTypes) = 2
    /\ Forwarding

\* C17, amended: paramFlag3 returns a 1-tuple; three types are not In: int*
\* and unsigned* are Out and libvlc_exception_t* is InOut; the wrapper's
\* arguments are 'self' and the remaining parameters that are not Out, in the
\* order of the declaration, and the declaration of the function lists the
\* types and flags of all the parameters, the Out ones included.
C17_Directions ==
    /\ \A t \in GivenTypes :
          Len(paramFlag3(t)) = 1 /\ paramFlag3(t)[1] = Direction(t)
    /\ DirectedTypes = {<<"int", "*">>, <<"unsigned", "*">>, ExceptionType}
    /\ Forwarding

SizeFunc == Under(<<"libvlc", "video", "get", "size">>)

\* C17's case: a method has been written for a function with two Out
\* parameters, without them, and the function is declared with all four
C17_Witness ==
    /\ pc = "saved"
    /\ \E i \in Places("method", SizeFunc) :
          out[i].y.args = << <<"self">>, <<"num">> >>
    /\ \E i \in Declarations(SizeFunc) :
          out[i].y.flags = << <<FlagIn>>, <<FlagIn>>, <<FlagOut>>, <<FlagOut>> >>

----------------------------------------------------------------------------
(* The override claim, under Spec *)

\* The i-th thing of the output is the override code of a class
IsOverride(i) == out[i].sec = "wrappers" /\ out[i].kind = "override"

\* The lines of the methods the override file defines in the class cl
OverrideDefs(cl) ==
    Concat([k \in 1..Len(decl.override.sections) |->
              IF decl.override.sections[k].name = cl
              THEN Concat([i \in 1..Len(decl.override.sections[k].defs) |->
                             Concat(DefLines(decl.override.sections[k].defs[i]))])
              ELSE <<>>])

\* C18: in the written file no method is generated for a function whose
\* short name the override code of its class defines; the override code of a
\* class is written as it is in override.py, before the generated methods of
\* the class, and none of these has a name the override code defines.
C18_OverrideWins ==
    (pc = "saved") =>
        /\ \A k \in 1..Len(decl.funcs) :
              Suppressed(decl.funcs[k]) => Places("method", decl.funcs[k].name) = {}
        /\ \A i \in 1..Len(out) :
              IsOverride(i) =>
                 /\ EndsWithSeq(out[i].y, OverrideDefs(out[i].x))
                 /\ \A j \in 1..Len(out) :
                       (IsMethod(j) /\ out[j].y.class = out[i].x) =>
                           /\ i < j
                           /\ out[j].y.name \notin Overrides(out[i].x)

\* C18's case: override.py defines count in MediaList, the sources declare
\* libvlc_media_list_count and another function of the class; the code of
\* override.py has been written and a method after it, and no method count
C18_Witness ==
    /\ pc = "saved"
    /\ Declared(CountFunc)
    /\ <<"count">> \in Overrides(<<"MediaList">>)
    /\ Places("method", CountFunc) = {}
    /\ \E i, j \in 1..Len(out) :
          /\ IsOverride(i)
          /\ out[i].x = <<"MediaList">>
          /\ out[i].y = OverrideDefs(<<"MediaList">>)
          /\ IsMethod(j)
          /\ out[j].y.class = <<"MediaList">>
          /\ i < j

----------------------------------------------------------------------------
(* Override sources: the override files parse_override is checked on *)

MaxSections == 2

\* The classes an override file of the model may hold
SectionPool ==
    { Section(<<"Instance">>, "none", << Under(<<"media", "new">>) >>),
      Section(<<"Instance">>, "closed", << <<"__new__">> >>),
      Section(<<"Instance">>, "unclosed", <<>>),
      Section(<<"Instance">>, "single", << Under(<<"media", "new">>) >>),
      Section(<<"MediaList">>, "none", << <<"count">> >>),
      Section(<<"Media">>, "none", <<>>) }

OverrideDecls ==
    [preamble : BOOLEAN,
     sections : UNION { [1..n -> SectionPool] : n \in 0..MaxSections }]

\* The text of the documentation string of a class
DocStringText == <<"Create", " ", "an", " ", "instance", ".">>

\* The last class of d with the name n
LastSection(d, n) ==
    d.sections[CHOOSE k \in 1..Len(d.sections) :
                  /\ d.sections[k].name = n
                  /\ \A j \in (k + 1)..Len(d.sections) : d.sections[j].name # n]

SectionNames(d) == { d.sections[k].name : k \in 1..Len(d.sections) }

----------------------------------------------------------------------------
(* SpecOverride: parse_override on one override file, line by line.  result *)
(* holds the locals of parse_override: code, current and data in the loop,  *)
(* and what it returns after it.                                            *)

InitOverride ==
    /\ decl \in OverrideDecls
    /\ src = OverrideFile(decl)
    /\ pc = "ov_reading"
    /\ enums = <<>>
    /\ methods = <<>>
    /\ reported = <<>>
    /\ type2class = Dict(BaseTable)
    /\ error = NoError
    /\ opened = FALSE
    /\ out = <<>>
    /\ clock = 1
    /\ run = 1
    /\ first_out = <<>>
    /\ checks = 0
    /\ io = <<>>
    /\ pos = 0
    /\ td = TypedefStart
    /\ inc = IncludeStart
    /\ result = OverrideStart

\* One iteration of 'for l in f' (lines 531-540)
OvLine ==
    /\ pc = "ov_reading"
    /\ pos < Len(src)
    /\ result' = OverrideLine(result, src[pos + 1])
    /\ pos' = pos + 1
    /\ UNCHANGED <<pc, decl, src, enums, methods, reported, type2class, error,
                   opened, out, clock, run, first_out, checks, io, td, inc>>

\* The file is exhausted (lines 541-553): the code of the last class is
\* recorded, the documentation strings are split off, and the names of the
\* methods are collected; line 548 may raise ValueError
OvClose ==
    /\ pc = "ov_reading"
    /\ pos = Len(src)
    /\ IF SplitFails(Put(result.code, result.current, result.data))
       THEN /\ error' = [NoError EXCEPT !.kind = "ValueError"]
            /\ pc' = "ov_failed"
            /\ UNCHANGED result
       ELSE /\ result' = Extracted(Put(result.code, result.current, result.data))
            /\ pc' = "ov_done"
            /\ UNCHANGED error
    /\ UNCHANGED <<decl, src, enums, methods, reported, type2class,
                   opened, out, clock, run, first_out, checks, io, pos, td, inc>>

NextOverride == OvLine \/ OvClose

SpecOverride == InitOverride /\ [][NextOverride]_vars

----------------------------------------------------------------------------
(* The override-parsing claim, under SpecOverride *)

\* What is recorded for the class n is what the file holds for it: the
\* lines after its marker as they are, or, when they open with a
\* documentation string, that string as the documentation and the lines
\* after it as the body
RecordedAsWritten(n) ==
    LET s == LastSection(decl, n) IN
    /\ n \in DOMAIN result.code
    /\ IF s.doc = "none"
       THEN /\ result.code[n] = Concat(BodyLines(s))
            /\ n \notin DOMAIN result.docstring
       ELSE /\ n \in DOMAIN result.docstring
            /\ strip(result.docstring[n]) = DocStringText
            /\ EndsWithSeq(result.code[n],
                           Concat([i \in 1..Len(s.defs) |-> Concat(DefLines(s.defs[i]))]))
            /\ ~HasSub(result.code[n], DocStringText)

\* C19: whatever the lines of the override file, parse_override returns, for
\* each marker line 'class <Name>:', the lines up to the next marker or the
\* end of the file under the key <Name>; the lines before the first marker
\* are under no class; a triple-quoted string that opens the lines of a class
\* is taken out of them and recorded as the documentation of the class.
C19_Bodies ==
    (pc # "ov_reading") =>
        /\ pc = "ov_done"
        /\ DOMAIN result.code \ {None} = SectionNames(decl)
        /\ \A n \in SectionNames(decl) : RecordedAsWritten(n)
        /\ \A n \in DOMAIN result.code \ {None} :
              ~HasSub(result.code[n], Concat(PreambleLines))

----------------------------------------------------------------------------
(* Documentation sources: the comments epydoc_comment is checked on *)

MaxDocParams == 3

\* The names of the parameters of the documented function, the first being
\* the object, and what the comment says of each
DocNames ==
    << Under(<<"p", "mi">>), <<"width">>, <<"height">>, <<"depth">>, <<"pitch">> >>

DocWords ==
    << <<"the", " ", "player">>, <<"the", " ", "width">>, <<"the", " ", "height">>,
       <<"the", " ", "depth">>, <<"the", " ", "pitch">> >>

\* For each parameter: the comment has a tag for it, and the tag says [OUT].
\* The first parameter is no output.  ret: the comment has a \return line;
\* note: it has a line of text after the tags.
DocDecls ==
    { d \in [params    : UNION { [1..n -> [documented : BOOLEAN, out : BOOLEAN]] :
                                   n \in 1..MaxDocParams },
             ret       : BOOLEAN,
             note      : BOOLEAN,
             fix_first : BOOLEAN] :
        /\ ~d.params[1].out
        /\ \A i \in 1..Len(d.params) : d.params[i].out => d.params[i].documented }

ReturnWords == <<"the", " ", "status">>

NoteWords == <<"Since", " ", "1.1">>

\* The tag line of the i-th parameter
TagLine(d, i) ==
    <<"\\param", " ">> \o DocNames[i] \o <<" ">> \o DocWords[i]
    \o (IF d.params[i].out THEN <<" ", "[OUT]">> ELSE <<>>)

\* The comment as parse_include keeps it: each line with its line end
DocComment(d) ==
    <<"Get", " ", "the", " ", "size", ".", "\n">>
    \o Concat([i \in 1..Len(d.params) |->
                 IF d.params[i].documented THEN TagLine(d, i) \o <<"\n">> ELSE <<>>])
    \o (IF d.note THEN <<"\\note", " ">> \o NoteWords \o <<"\n">> ELSE <<>>)
    \o (IF d.ret THEN <<"\\return", " ">> \o ReturnWords \o <<"\n">> ELSE <<>>)

----------------------------------------------------------------------------
(* SpecDoc: epydoc_comment applied to one comment *)

InitDoc ==
    /\ decl \in DocDecls
    /\ src = DocComment(decl)
    /\ pc = "doc_start"
    /\ enums = <<>>
    /\ methods = <<>>
    /\ reported = <<>>
    /\ type2class = Dict(BaseTable)
    /\ error = NoError
    /\ opened = FALSE
    /\ out = <<>>
    /\ clock = 1
    /\ run = 1
    /\ first_out = <<>>
    /\ checks = 0
    /\ io = <<>>
    /\ pos = 0
    /\ td = TypedefStart
    /\ inc = IncludeStart
    /\ result = <<>>

\* comment = self.epydoc_comment(comment, fix_first)
DocRender ==
    /\ pc = "doc_start"
    /\ result' = epydoc_comment(src, decl.fix_first)
    /\ pc' = "doc_done"
    /\ UNCHANGED <<decl, src, enums, methods, reported, type2class, error,
                   opened, out, clock, run, first_out, checks, io, pos, td, inc>>

NextDoc == DocRender

SpecDoc == InitDoc /\ [][NextDoc]_vars

----------------------------------------------------------------------------
(* The documentation claim, under SpecDoc *)

\* The lines of the result
Rendered == splitlines(result)

\* The group of a line of the result: 1 text, 2 parameter tag, 3 return
Group(l) ==
    IF Contains(l, "@return") \/ Contains(l, "@return:") THEN 3
    ELSE IF Contains(l, "@param") THEN 2
    ELSE 1

\* The result has a parameter tag for the i-th parameter
Tagged(i) ==
    \E k \in 1..Len(Rendered) :
        /\ Group(Rendered[k]) = 2
        /\ HasSub(Rendered[k], <<"@param", " ">> \o DocNames[i])

\* The result has a return line that holds the words w
Returns(w) ==
    \E k \in 1..Len(Rendered) : Group(Rendered[k]) = 3 /\ HasSub(Rendered[k], w)

\* C20: whatever the comment, the result holds the lines of text, then the
\* parameter tags, then the return line, each group in the order of the
\* comment; a parameter tagged [OUT] has no parameter tag in the result and
\* its description is in the return line, which keeps the return
\* description of the comment; with fix_first the tag of the first declared
\* parameter is dropped and no other parameter's tag is.
C20_Rendering ==
    (pc = "doc_done") =>
        /\ \A j, k \in 1..Len(Rendered) :
              j < k => Group(Rendered[j]) <= Group(Rendered[k])
        /\ \A i, j \in 1..Len(decl.params) : \A k, m \in 1..Len(Rendered) :
              (/\ i < j
               /\ HasSub(Rendered[k], <<"@param", " ">> \o DocNames[i])
               /\ HasSub(Rendered[m], <<"@param", " ">> \o DocNames[j])) => k < m
        /\ \A i \in 1..Len(decl.params) :
              /\ decl.params[i].out => (~Tagged(i) /\ Returns(DocWords[i]))
              /\ (decl.params[i].documented /\ ~decl.params[i].out) =>
                    (Tagged(i) <=> ~(decl.fix_first /\ i = 1))
        /\ decl.ret => Returns(ReturnWords)

----------------------------------------------------------------------------
(* The partition claim, under Spec *)

\* The names of the functions the sources declare
DeclaredNames == { decl.funcs[k].name : k \in 1..Len(decl.funcs) }

\* What C and the type table say: the candidates that are not blacklisted
WrappableNames ==
    { decl.funcs[k].name : k \in { k \in 1..Len(decl.funcs) :
        Candidate(decl.funcs[k]) /\ decl.funcs[k].name \notin blacklist } }

\* The lines of the summary that name a function, and its header lines
SummaryEntries ==
    { i \in 1..Len(out) : out[i].sec = "summary" /\ out[i].kind = "method" }

SummaryHeaders ==
    { i \in 1..Len(out) : out[i].sec = "summary" /\ out[i].kind = "count" }

====
